---- MODULE Spec2Model ----
(***************************************************************************)
(* A model of santa-lang Prancer: the CLI front-end (src/cli/src/index.ts, *)
(* io.ts, output.ts), the solution runner it drives, and the evaluator     *)
(* core described in docs/ARCHITECTURE.md.                                 *)
(*                                                                         *)
(* Spec      the CLI process: argument handling, run mode, test mode, the  *)
(*           error handler and the exit code.                              *)
(* SpecEval  the evaluator: a program is evaluated statement by statement  *)
(*           against an environment heap.                                  *)
(***************************************************************************)
EXTENDS Integers, Sequences, FiniteSets, TLC

\* ------------------------------------------------------------------ bounds

\* The longest list of `test` sections a source declares.
MaxTests == 2

\* The most lines typed into the REPL before it is closed.
MaxReplLines == 1

\* The deepest recursion of the recursive programs evaluated.
MaxDepth == 3

\* The largest integer operand of the programs evaluated.
MaxOperand == 2

\* The elements of the list a fold goes over.
MaxItems == 3

\* The calls made to the io module in one run, and how far Date.now() advances.
MaxIoCalls == 4

MaxClock == 2

\* The operations made on collections in one run.
MaxCollOps == 4

\* The input() calls of one run, and the longest content fetched.
MaxInputCalls == 2

MaxContent == 2

\* ------------------------------------------------------------- CLI: state

VARIABLES
  pc,              \* position of the CLI main script
  outputMode,      \* index.ts: let outputMode
  isTestRun,       \* index.ts: const isTestRun
  includeSlow,     \* index.ts: const includeSlow
  filename,        \* index.ts: let filename ("null" or the script file)
  source,          \* index.ts: let source (an abstract source text)
  result,          \* what run() returned
  testCases,       \* what runTests() returned
  thrown,          \* the error caught by catch (err)
  consoleBuffer,   \* io.ts: let consoleBuffer (on = FALSE models null)
  captureStartTime,\* io.ts: let captureStartTime
  stdout,          \* lines written with console.log
  stderr,          \* lines written with console.error
  exitCode,        \* the code given to process.exit (-1 while running)
  usage,           \* the command line and the file system, as far as decided (history)
  evaluated,       \* the units the runner evaluated, in order (history)
  ran,             \* run() or runTests() has been called (history)
  replLines,       \* lines the REPL has read
  now              \* Date.now()

cliVars == <<pc, outputMode, isTestRun, includeSlow, filename, source, result, testCases, thrown, consoleBuffer, captureStartTime, stdout, stderr, exitCode, usage, evaluated, ran, replLines, now>>

\* ------------------------------------------------------- abstract sources

\* A test's expectation for a part, relative to the value the part section
\* computes for the test's input: none declared, equal, or different.
Expectations == {"none", "match", "mismatch"}

TestDecls == [slow : BOOLEAN, part_one : Expectations, part_two : Expectations]

SeqUpTo(S, n) == UNION {[1..k -> S] : k \in 0..n}

\* A source text, as far as the runner and the CLI look at it: whether it
\* lexes/parses/evaluates (fault), which part sections it declares at top
\* level, and its test sections in declaration order. The sources modelled
\* call puts once in every unit of code (top level, input, part or test
\* body), so that each evaluation shows as an output() call.
NoLocation == [line |-> 0, column |-> 0]

\* Where a faulty source fails, zero-indexed: at its very start, or on its
\* fourth line (as `1 * "invalid"` after three lets).
ErrorLocations == {NoLocation, [line |-> 3, column |-> 2]}

GoodSources == [fault : {"none"}, at : {NoLocation}, part_one : BOOLEAN, part_two : BOOLEAN, tests : SeqUpTo(TestDecls, MaxTests)]

BadSources == [fault : {"parse", "runtime"}, at : ErrorLocations, part_one : BOOLEAN, part_two : BOOLEAN, tests : {<<>>}]

Sources == GoodSources \cup BadSources

NoSource == [fault |-> "unset", at |-> NoLocation, part_one |-> FALSE, part_two |-> FALSE, tests |-> <<>>]

\* ------------------------------------------------------------ the runner

Unit(name, idx) == [unit |-> name, idx |-> idx]

\* A runner that skips every slow test, whatever the caller requested.
IsSkippedWhenSlow(slow, wantSlow) == slow

\* slow and the caller did not request slow
IsSkipped(slow, wantSlow) == slow /\ ~wantSlow

\* A part of a test is evaluated and compared when the source declares the
\* part section and the test states an expectation for it.
PartResult(declared, expectation) ==
  IF declared /\ expectation # "none"
  THEN (IF expectation = "match" THEN "pass" ELSE "fail")
  ELSE "absent"

RunTestCase(src, test, wantSlow) ==
  IF IsSkipped(test.slow, wantSlow)
  THEN [slow |-> test.slow, skipped |-> TRUE, partOne |-> "absent", partTwo |-> "absent"]
  ELSE [slow |-> test.slow, skipped |-> FALSE,
        partOne |-> PartResult(src.part_one, test.part_one),
        partTwo |-> PartResult(src.part_two, test.part_two)]

\* The units evaluated for test number i: nothing when it is skipped.
TestUnits(src, test, wantSlow, i) ==
  IF IsSkipped(test.slow, wantSlow)
  THEN <<>>
  ELSE <<Unit("test", i)>>
       \o (IF PartResult(src.part_one, test.part_one) # "absent" THEN <<Unit("part_one", i)>> ELSE <<>>)
       \o (IF PartResult(src.part_two, test.part_two) # "absent" THEN <<Unit("part_two", i)>> ELSE <<>>)

RECURSIVE TestUnitsFrom(_, _, _)
TestUnitsFrom(src, wantSlow, i) ==
  IF i > Len(src.tests) THEN <<>>
  ELSE TestUnits(src, src.tests[i], wantSlow, i) \o TestUnitsFrom(src, wantSlow, i + 1)

\* runTests(source, io, includeSlow): one result per test section, in order.
RunTests(src, wantSlow) == [i \in 1..Len(src.tests) |-> RunTestCase(src, src.tests[i], wantSlow)]

\* What runTests evaluates: the top-level program, then each test's units.
RunTestsUnits(src, wantSlow) ==
  IF src.fault = "parse" THEN <<>>
  ELSE IF src.fault = "runtime" THEN <<Unit("top", 0)>>
  ELSE <<Unit("top", 0)>> \o TestUnitsFrom(src, wantSlow, 1)

\* run(source, io): a solution result when a part section is declared,
\* otherwise a script result.
Run(src) ==
  IF src.part_one \/ src.part_two
  THEN [kind |-> "solution", partOne |-> src.part_one, partTwo |-> src.part_two]
  ELSE [kind |-> "script", partOne |-> FALSE, partTwo |-> FALSE]

RunUnits(src) ==
  IF src.fault = "parse" THEN <<>>
  ELSE IF src.fault = "runtime" THEN <<Unit("top", 0)>>
  ELSE <<Unit("top", 0)>>
       \o (IF src.part_one \/ src.part_two THEN <<Unit("input", 0)>> ELSE <<>>)
       \o (IF src.part_one THEN <<Unit("part_one", 0)>> ELSE <<>>)
       \o (IF src.part_two THEN <<Unit("part_two", 0)>> ELSE <<>>)

NoResult == [kind |-> "none", partOne |-> FALSE, partTwo |-> FALSE]

NoError == [message |-> "none", line |-> 0, column |-> 0]

\* The error the core throws: its message and zero-indexed line and column.
ErrorOf(src) == [message |-> src.fault, line |-> src.at.line, column |-> src.at.column]

\* ------------------------------------------------------- io.ts: console

NullBuffer == [on |-> FALSE, entries |-> <<>>]

RECURSIVE Join(_)
\* args.join(' ')
Join(args) ==
  IF Len(args) = 0 THEN ""
  ELSE IF Len(args) = 1 THEN args[1]
  ELSE args[1] \o " " \o Join(Tail(args))

\* The console state an output() call works on: the capture buffer and stdout.
Console(buffer, out) == [buffer |-> buffer, out |-> out]

PutsLine(message) == [kind |-> "puts", text |-> message]

\* An output that makes an entry or a line of every call.
OutputEveryCall(args, con, start, time) ==
  IF con.buffer.on
  THEN [con EXCEPT !.buffer.entries = Append(@, [timestamp_ms |-> time - start, message |-> Join(args)])]
  ELSE [con EXCEPT !.out = Append(@, PutsLine(Join(args)))]

\* An output that puts the newest entry first.
OutputNewestFirst(args, con, start, time) ==
  IF Len(args) = 0 THEN con
  ELSE IF con.buffer.on
       THEN [con EXCEPT !.buffer.entries = <<[timestamp_ms |-> time - start, message |-> Join(args)]>> \o @]
       ELSE [con EXCEPT !.out = Append(@, PutsLine(Join(args)))]

\* A disableConsoleCapture() that hands the entries over and goes on capturing.
DisableKeepsCapturing(buffer) == [entries |-> buffer.entries, buffer |-> buffer]

\* disableConsoleCapture(): const entries = consoleBuffer || []; consoleBuffer = null
DisableConsoleCapture(buffer) == [entries |-> IF buffer.on THEN buffer.entries ELSE <<>>, buffer |-> NullBuffer]

\* io.output(args) at time `time`, capture started at `start`
Output(args, con, start, time) ==
  IF Len(args) = 0 THEN con
  ELSE IF con.buffer.on
       THEN [con EXCEPT !.buffer.entries = Append(@, [timestamp_ms |-> time - start, message |-> Join(args)])]
       ELSE [con EXCEPT !.out = Append(@, PutsLine(Join(args)))]

RECURSIVE OutputAll(_, _, _, _)
\* the output() calls of one evaluation, in order
OutputAll(calls, con, start, time) ==
  IF Len(calls) = 0 THEN con
  ELSE OutputAll(Tail(calls), Output(calls[1], con, start, time), start, time)

\* The puts calls a source makes while `units` are evaluated.
PutsOf(src, units) == [i \in 1..Len(units) |-> <<units[i].unit, ToString(units[i].idx)>>]

\* ---------------------------------------------------- output.ts: formats

BoolStr(b) == IF b THEN "true" ELSE "false"

\* isSolutionSource: source.includes('part_one:') / source.includes('part_two:').
\* The text holds 'part_one:' when a part_one section is declared and also
\* when a test section states a part_one expectation.
HasPartOneText(src) == src.part_one \/ \E i \in 1..Len(src.tests) : src.tests[i].part_one # "none"

HasPartTwoText(src) == src.part_two \/ \E i \in 1..Len(src.tests) : src.tests[i].part_two # "none"

IsSolutionSource(src) == [hasPartOne |-> HasPartOneText(src), hasPartTwo |-> HasPartTwoText(src)]

\* A verdict that looks at part one only.
AllPassedPartOne(tc) == tc.partOne = "absent" \/ tc.partOne = "pass"

\* const partOnePassed = tc.partOne === undefined || tc.partOne.hasPassed; ...
AllPassed(tc) == (tc.partOne = "absent" \/ tc.partOne = "pass") /\ (tc.partTwo = "absent" \/ tc.partTwo = "pass")

\* A formatter without the `if (tc.skipped)` branch.
FormatTestCaseJsonNoSkip(tc, i, hasPartOne, hasPartTwo) ==
  [index |-> i, slow |-> tc.slow, status |-> "complete",
   part_one |-> IF hasPartOne /\ tc.partOne # "absent" THEN tc.partOne ELSE "absent",
   part_two |-> IF hasPartTwo /\ tc.partTwo # "absent" THEN tc.partTwo ELSE "absent"]

\* One element of formatTestJson's tests; i is the 1-based position (i + 1 in
\* the code, whose i is 0-based).
FormatTestCaseJson(tc, i, hasPartOne, hasPartTwo) ==
  IF tc.skipped
  THEN [index |-> i, slow |-> tc.slow, status |-> "skipped", part_one |-> "absent", part_two |-> "absent"]
  ELSE [index |-> i, slow |-> tc.slow, status |-> "complete",
        part_one |-> IF hasPartOne /\ tc.partOne # "absent" THEN tc.partOne ELSE "absent",
        part_two |-> IF hasPartTwo /\ tc.partTwo # "absent" THEN tc.partTwo ELSE "absent"]

\* A count that finds no skipped test.
CountNone(tcs) == 0

CountSkipped(tcs) == Cardinality({i \in 1..Len(tcs) : tcs[i].skipped})

CountPassed(tcs) == Cardinality({i \in 1..Len(tcs) : ~tcs[i].skipped /\ AllPassed(tcs[i])})

CountFailed(tcs) == Cardinality({i \in 1..Len(tcs) : ~tcs[i].skipped /\ ~AllPassed(tcs[i])})

FormatTestJson(tcs, hasPartOne, hasPartTwo, console) ==
  [type |-> "test", status |-> "complete",
   success |-> BoolStr(CountFailed(tcs) = 0),
   summary |-> [total |-> Len(tcs), passed |-> CountPassed(tcs), failed |-> CountFailed(tcs), skipped |-> CountSkipped(tcs)],
   tests |-> [i \in 1..Len(tcs) |-> FormatTestCaseJson(tcs[i], i, hasPartOne, hasPartTwo)],
   console |-> console]

\* A formatter that gives every solution both parts.
FormatRunJsonBothParts(res, console) ==
  IF res.kind = "script"
  THEN [type |-> "script", status |-> "complete", value |-> "set", part_one |-> "absent", part_two |-> "absent", console |-> console]
  ELSE [type |-> "solution", status |-> "complete", value |-> "absent", part_one |-> "complete", part_two |-> "complete", console |-> console]

\* formatRunJson: a script result has 'value' and 'duration'.
FormatRunJson(res, console) ==
  IF res.kind = "script"
  THEN [type |-> "script", status |-> "complete", value |-> "set", part_one |-> "absent", part_two |-> "absent", console |-> console]
  ELSE [type |-> "solution", status |-> "complete", value |-> "absent",
        part_one |-> IF res.partOne THEN "complete" ELSE "absent",
        part_two |-> IF res.partTwo THEN "complete" ELSE "absent",
        console |-> console]

\* An error document that reports the core's location as it is.
FormatErrorJsonZeroIndexed(err) ==
  [type |-> "error", message |-> err.message, location |-> [line |-> err.line, column |-> err.column], stack |-> <<>>]

\* formatErrorJson: the location is 1-indexed.
FormatErrorJson(err) ==
  [type |-> "error", message |-> err.message, location |-> [line |-> err.line + 1, column |-> err.column + 1], stack |-> <<>>]

CreateSolutionInitial(hasPartOne, hasPartTwo) ==
  [type |-> "solution", status |-> "pending", value |-> "absent",
   part_one |-> IF hasPartOne THEN "pending" ELSE "absent",
   part_two |-> IF hasPartTwo THEN "pending" ELSE "absent",
   console |-> <<>>]

CreateScriptInitial == [type |-> "script", status |-> "pending", value |-> "null", part_one |-> "absent", part_two |-> "absent", console |-> <<>>]

\* An initial state that announces no test.
CreateTestInitialEmpty(tcs) ==
  [type |-> "test", status |-> "pending", success |-> "null",
   summary |-> [total |-> 0, passed |-> 0, failed |-> 0, skipped |-> 0],
   tests |-> <<>>,
   console |-> <<>>]

CreateTestInitial(tcs) ==
  [type |-> "test", status |-> "pending", success |-> "null",
   summary |-> [total |-> Len(tcs), passed |-> 0, failed |-> 0, skipped |-> 0],
   tests |-> [i \in 1..Len(tcs) |-> [index |-> i, slow |-> tcs[i].slow, status |-> "pending", part_one |-> "null", part_two |-> "null"]],
   console |-> <<>>]

Str(s) == [s |-> s, n |-> 0]

Num(n) == [s |-> "", n |-> n]

ReplacePatch(path, val) == [op |-> "replace", path |-> path, val |-> val]

AddPatch(path, val) == [op |-> "add", path |-> path, val |-> val]

\* writeLine(obj): one line holding a document
WriteLine(doc) == [kind |-> "doc", doc |-> doc]

\* writePatches(patches): one line holding a list of patches
WritePatches(patches) == [kind |-> "patches", patches |-> patches]

TextLine(text) == [kind |-> "text", text |-> text]

\* for (const entry of consoleEntries) writePatches([addPatch('/console/-', entry)])
ConsolePatches(entries) == [i \in 1..Len(entries) |-> WritePatches(<<AddPatch("/console/-", Str(entries[i].message))>>)]

\* ------------------------------------------- index.ts: test mode output

RECURSIVE TextTestLoop(_, _, _)
\* for (const [idx, testCase] of Object.entries(testCases)) { ... } of the
\* text output; st holds the lines written and let exitCode. i is 1-based.
TextTestLoop(tcs, i, st) ==
  IF i > Len(tcs) THEN st
  ELSE
    LET tc == tcs[i]
        s0 == IF i > 1 THEN [st EXCEPT !.out = Append(@, TextLine(""))] ELSE st
        head == IF tc.skipped THEN "Testcase (skipped)"
                ELSE IF tc.slow THEN "Testcase (slow)" ELSE "Testcase"
        s1 == [s0 EXCEPT !.out = Append(@, TextLine(head))]
        s2 == IF tc.partOne = "absent" THEN s1
              ELSE IF tc.partOne = "pass" THEN [s1 EXCEPT !.out = Append(@, TextLine("Part 1 ok"))]
              ELSE [s1 EXCEPT !.out = Append(@, TextLine("Part 1 failed")), !.exitCode = 3]
        s3 == IF tc.partTwo = "absent" THEN s2
              ELSE IF tc.partTwo = "pass" THEN [s2 EXCEPT !.out = Append(@, TextLine("Part 2 ok"))]
              ELSE [s2 EXCEPT !.out = Append(@, TextLine("Part 2 failed")), !.exitCode = 3]
    IN IF tc.skipped THEN TextTestLoop(tcs, i + 1, s1)
       ELSE IF tc.partOne = "absent" /\ tc.partTwo = "absent"
            THEN TextTestLoop(tcs, i + 1, [s1 EXCEPT !.out = Append(@, TextLine("No expectations"))])
            ELSE TextTestLoop(tcs, i + 1, s3)

\* A failure check that looks at part one only.
HasFailuresPartOne(tcs) ==
  \E i \in 1..Len(tcs) : ~tcs[i].skipped /\ tcs[i].partOne # "absent" /\ tcs[i].partOne # "pass"

\* const hasFailures = testCases.some(tc => !tc.skipped && (...)) of the JSON output
HasFailures(tcs) ==
  \E i \in 1..Len(tcs) : /\ ~tcs[i].skipped
                         /\ \/ (tcs[i].partOne # "absent" /\ tcs[i].partOne # "pass")
                            \/ (tcs[i].partTwo # "absent" /\ tcs[i].partTwo # "pass")

TestPath(i, field) == "/tests/" \o ToString(i) \o "/" \o field

RECURSIVE JsonlTestLoop(_, _, _, _, _)
\* for (let i = 0; i < testCases.length; i++) { ... } of the JSONL output;
\* st holds the lines written and let passed, failed, skipped. k is 1-based,
\* the path index is the code's 0-based i = k - 1.
JsonlTestLoop(tcs, k, hasPartOne, hasPartTwo, st) ==
  IF k > Len(tcs) THEN st
  ELSE
    LET tc == tcs[k]
        i == k - 1
        allPassed == AllPassed(tc)
        passed == IF allPassed THEN st.passed + 1 ELSE st.passed
        failed == IF allPassed THEN st.failed ELSE st.failed + 1
        patches == <<ReplacePatch(TestPath(i, "status"), Str("complete"))>>
                   \o (IF hasPartOne /\ tc.partOne # "absent" THEN <<ReplacePatch(TestPath(i, "part_one"), Str(tc.partOne))>> ELSE <<>>)
                   \o (IF hasPartTwo /\ tc.partTwo # "absent" THEN <<ReplacePatch(TestPath(i, "part_two"), Str(tc.partTwo))>> ELSE <<>>)
                   \o (IF allPassed THEN <<ReplacePatch("/summary/passed", Num(passed))>>
                       ELSE <<ReplacePatch("/summary/failed", Num(failed))>>)
    IN IF tc.skipped
       THEN JsonlTestLoop(tcs, k + 1, hasPartOne, hasPartTwo,
              [st EXCEPT !.skipped = @ + 1,
                         !.out = Append(@, WritePatches(<<ReplacePatch(TestPath(i, "status"), Str("skipped")),
                                                          ReplacePatch("/summary/skipped", Num(st.skipped + 1))>>))])
       ELSE JsonlTestLoop(tcs, k + 1, hasPartOne, hasPartTwo,
              [st EXCEPT !.passed = passed, !.failed = failed,
                         !.out = Append(Append(@, WritePatches(<<ReplacePatch(TestPath(i, "status"), Str("running"))>>)),
                                        WritePatches(patches))])

\* ------------------------------------------------- index.ts: the script

OutFlags == {"none", "text", "json", "jsonl", "xml"}

\* An option parser that accepts any value.
AnyFormat(format) == TRUE

\* format === 'text' || format === 'json' || format === 'jsonl'
ValidFormat(format) == format \in {"text", "json", "jsonl"}

\* What usage records of the value after -o/--output.
FlagClass(flag) == IF flag \in {"none", "text", "json", "jsonl"} THEN "ok" ELSE "invalid"

\* What usage records of where the source comes from: -e code, a readable or
\* unreadable .santa file, stdin data, or nothing.
Origins == {"eval", "file", "unreadable", "stdin", "nothing"}

OriginClass(origin) == IF origin \in {"unreadable", "nothing"} THEN origin ELSE "ok"

Unread == [help |-> "unread", outFlag |-> "unread", version |-> "unread", repl |-> "unread", origin |-> "unread"]

CliInit ==
  /\ pc = "help"
  /\ outputMode = "text"
  /\ isTestRun = FALSE
  /\ includeSlow = FALSE
  /\ filename = "null"
  /\ source = NoSource
  /\ result = NoResult
  /\ testCases = <<>>
  /\ thrown = NoError
  /\ consoleBuffer = NullBuffer
  /\ captureStartTime = 0
  /\ stdout = <<>>
  /\ stderr = <<>>
  /\ exitCode = -1
  /\ usage = Unread
  /\ evaluated = <<>>
  /\ ran = FALSE
  /\ replLines = 0
  /\ now = 0

\* if (args.includes('-h') || args.includes('--help')) { printHelp(); process.exit(0); }
\* The facts of the command line are drawn when the script first reads them;
\* an exit that leaves some unread draws them too (they were on the command
\* line all the same).
CheckHelp ==
  /\ pc = "help"
  /\ \E help \in BOOLEAN :
       IF help
       THEN /\ \E flag \in OutFlags, origin \in Origins :
                 usage' = [usage EXCEPT !.help = "true", !.outFlag = FlagClass(flag), !.origin = OriginClass(origin)]
            /\ stdout' = Append(stdout, TextLine("help"))
            /\ pc' = "exit"
            /\ exitCode' = 0
       ELSE /\ usage' = [usage EXCEPT !.help = "false"]
            /\ pc' = "outputMode"
            /\ UNCHANGED <<stdout, exitCode>>
  /\ UNCHANGED <<outputMode, isTestRun, includeSlow, filename, source, result, testCases, thrown, consoleBuffer, captureStartTime, stderr, evaluated, ran, replLines, now>>

\* Parse output mode. flag is what follows -o/--output: "none" when the option
\* is not given or nothing (or the empty string) follows it.
ParseOutputMode ==
  /\ pc = "outputMode"
  /\ \E flag \in OutFlags :
       /\ usage' = [usage EXCEPT !.outFlag = FlagClass(flag)]
       /\ IF flag = "none"
          THEN /\ pc' = "version"
               /\ UNCHANGED <<outputMode, stderr, exitCode>>
          ELSE IF ValidFormat(flag)
          THEN /\ outputMode' = flag
               /\ pc' = "version"
               /\ UNCHANGED <<stderr, exitCode>>
          ELSE /\ stderr' = Append(stderr, TextLine("Error: Invalid output format"))
               /\ pc' = "exit"
               /\ exitCode' = 1
               /\ UNCHANGED outputMode
  /\ UNCHANGED <<isTestRun, includeSlow, filename, source, result, testCases, thrown, consoleBuffer, captureStartTime, stdout, evaluated, ran, replLines, now>>

\* Check for version flag
CheckVersion ==
  /\ pc = "version"
  /\ \E version \in BOOLEAN :
       IF version
       THEN /\ \E origin \in Origins : usage' = [usage EXCEPT !.version = "true", !.origin = OriginClass(origin)]
            /\ stdout' = Append(stdout, IF outputMode = "text" THEN TextLine("version") ELSE [kind |-> "version", text |-> "json"])
            /\ pc' = "exit"
            /\ exitCode' = 0
       ELSE /\ usage' = [usage EXCEPT !.version = "false"]
            /\ pc' = "repl"
            /\ UNCHANGED <<stdout, exitCode>>
  /\ UNCHANGED <<outputMode, isTestRun, includeSlow, filename, source, result, testCases, thrown, consoleBuffer, captureStartTime, stderr, evaluated, ran, replLines, now>>

\* Check for REPL flag: runRepl() prints the banner and prompts.
CheckRepl ==
  /\ pc = "repl"
  /\ \E repl \in BOOLEAN :
       IF repl
       THEN /\ \E origin \in Origins : usage' = [usage EXCEPT !.repl = "true", !.origin = OriginClass(origin)]
            /\ stdout' = Append(stdout, TextLine("Santa REPL"))
            /\ pc' = "prompt"
       ELSE /\ usage' = [usage EXCEPT !.repl = "false"]
            /\ pc' = "source"
            /\ UNCHANGED stdout
  /\ UNCHANGED <<outputMode, isTestRun, includeSlow, filename, source, result, testCases, thrown, consoleBuffer, captureStartTime, stderr, exitCode, evaluated, ran, replLines, now>>

\* rl.on('line'): a blank line prompts again; otherwise the line is evaluated
\* and its value, its error or the thrown message is printed. No exit.
ReplLine ==
  /\ pc = "prompt"
  /\ replLines < MaxReplLines
  /\ \E line \in {"blank", "value", "error", "throws"} :
       stdout' = IF line = "blank" THEN stdout ELSE Append(stdout, TextLine(line))
  /\ replLines' = replLines + 1
  /\ UNCHANGED <<pc, outputMode, isTestRun, includeSlow, filename, source, result, testCases, thrown, consoleBuffer, captureStartTime, stderr, exitCode, usage, evaluated, ran, now>>

\* rl.on('close')
ReplClose ==
  /\ pc = "prompt"
  /\ stdout' = Append(stdout, TextLine("Goodbye"))
  /\ pc' = "exit"
  /\ exitCode' = 0
  /\ UNCHANGED <<outputMode, isTestRun, includeSlow, filename, source, result, testCases, thrown, consoleBuffer, captureStartTime, stderr, usage, evaluated, ran, replLines, now>>

\* enableConsoleCapture()
EnableConsoleCapture == captureStartTime' = now /\ consoleBuffer' = [on |-> TRUE, entries |-> <<>>]

\* Determine source: -e > file > stdin; then chdir and, for JSON/JSONL,
\* enableConsoleCapture(). origin is what the arguments and the file system
\* hold: -e code, a readable or unreadable .santa file, stdin data, or nothing.
\* -s/--slow is read by test mode only, so it is drawn with -t only.
SelectSource ==
  /\ pc = "source"
  /\ \E t \in BOOLEAN, s \in BOOLEAN, origin \in Origins :
       /\ isTestRun' = t
       /\ (s => t)
       /\ includeSlow' = s
       /\ usage' = [usage EXCEPT !.origin = OriginClass(origin)]
       /\ IF origin = "unreadable"
          THEN /\ stdout' = Append(stdout, TextLine("Unable to open source file"))
               /\ filename' = "script.santa"
               /\ pc' = "exit"
               /\ exitCode' = 1
               /\ UNCHANGED <<source, consoleBuffer, captureStartTime>>
          ELSE IF origin = "nothing"
          THEN /\ stdout' = Append(stdout, TextLine("help"))
               /\ pc' = "exit"
               /\ exitCode' = 1
               /\ UNCHANGED <<filename, source, consoleBuffer, captureStartTime>>
          ELSE /\ \E src \in Sources : source' = src
               /\ filename' = IF origin = "file" THEN "script.santa" ELSE "null"
               /\ IF outputMode # "text" THEN EnableConsoleCapture ELSE UNCHANGED <<consoleBuffer, captureStartTime>>
               /\ pc' = IF t THEN "test" ELSE "run"
               /\ UNCHANGED <<stdout, exitCode>>
  /\ UNCHANGED <<outputMode, result, testCases, thrown, stderr, evaluated, ran, replLines, now>>

\* The lines run mode writes before running, in JSONL mode (initial state and
\* the running patches); nothing in the other modes.
RunInitialLines(mode, hasPartOne, hasPartTwo) ==
  IF mode # "jsonl" THEN <<>>
  ELSE IF hasPartOne \/ hasPartTwo
  THEN <<WriteLine(CreateSolutionInitial(hasPartOne, hasPartTwo)), WritePatches(<<ReplacePatch("/status", Str("running"))>>)>>
       \o (IF hasPartOne THEN <<WritePatches(<<ReplacePatch("/part_one/status", Str("running"))>>)>> ELSE <<>>)
       \o (IF hasPartTwo THEN <<WritePatches(<<ReplacePatch("/part_two/status", Str("running"))>>)>> ELSE <<>>)
  ELSE <<WriteLine(CreateScriptInitial), WritePatches(<<ReplacePatch("/status", Str("running"))>>)>>

PartPatches(name) == WritePatches(<<ReplacePatch("/" \o name \o "/status", Str("complete")), ReplacePatch("/" \o name \o "/value", Str("set")), ReplacePatch("/" \o name \o "/duration_ms", Num(0))>>)

\* The lines run mode writes after run() returned res.
RunOutputLines(mode, res, hasPartOne, hasPartTwo, entries) ==
  IF mode = "text"
  THEN IF res.kind = "script" THEN <<TextLine("value")>>
       ELSE (IF res.partOne THEN <<TextLine("Part 1")>> ELSE <<>>) \o (IF res.partTwo THEN <<TextLine("Part 2")>> ELSE <<>>)
  ELSE IF mode = "json"
  THEN <<WriteLine(FormatRunJson(res, entries))>>
  ELSE ConsolePatches(entries)
       \o (IF hasPartOne \/ hasPartTwo
           THEN (IF res.kind = "solution" /\ res.partOne /\ hasPartOne THEN <<PartPatches("part_one")>> ELSE <<>>)
                \o (IF res.kind = "solution" /\ res.partTwo /\ hasPartTwo THEN <<PartPatches("part_two")>> ELSE <<>>)
                \o <<WritePatches(<<ReplacePatch("/status", Str("complete"))>>)>>
           ELSE IF res.kind = "script"
                THEN <<WritePatches(<<ReplacePatch("/status", Str("complete")), ReplacePatch("/value", Str("set")), ReplacePatch("/duration_ms", Num(0))>>)>>
                ELSE <<>>)

\* Run mode: if (!isTestRun) { ... }. run(source, io) evaluates the source,
\* its puts calls go through io.output; it throws on a lex, parse or runtime
\* error, else the result is written and the process exits 0.
RunMode ==
  /\ pc = "run"
  /\ LET sol == IsSolutionSource(source)
         units == RunUnits(source)
         con == OutputAll(PutsOf(source, units), Console(consoleBuffer, stdout \o RunInitialLines(outputMode, sol.hasPartOne, sol.hasPartTwo)), captureStartTime, now)
     IN /\ ran' = TRUE
        /\ evaluated' = units
        /\ IF source.fault # "none"
           THEN /\ thrown' = ErrorOf(source)
                /\ pc' = "catch"
                /\ stdout' = con.out
                /\ consoleBuffer' = con.buffer
                /\ UNCHANGED <<result, exitCode>>
           ELSE /\ result' = Run(source)
                /\ stdout' = con.out \o RunOutputLines(outputMode, Run(source), sol.hasPartOne, sol.hasPartTwo, con.buffer.entries)
                /\ consoleBuffer' = IF outputMode = "text" THEN con.buffer ELSE NullBuffer
                /\ pc' = "exit"
                /\ exitCode' = 0
                /\ UNCHANGED thrown
  /\ UNCHANGED <<outputMode, isTestRun, includeSlow, filename, source, testCases, captureStartTime, stderr, usage, replLines, now>>

\* The exit code of test mode, as each output mode computes it.
TestExitCode(mode, tcs) ==
  IF mode = "text" THEN TextTestLoop(tcs, 1, [out |-> <<>>, exitCode |-> 0]).exitCode
  ELSE IF mode = "json" THEN (IF HasFailures(tcs) THEN 3 ELSE 0)
  ELSE (IF JsonlTestLoop(tcs, 1, FALSE, FALSE, [out |-> <<>>, passed |-> 0, failed |-> 0, skipped |-> 0]).failed = 0 THEN 0 ELSE 3)

\* The lines test mode writes after runTests() returned tcs.
TestOutputLines(mode, tcs, hasPartOne, hasPartTwo, entries) ==
  IF mode = "text" THEN TextTestLoop(tcs, 1, [out |-> <<>>, exitCode |-> 0]).out
  ELSE IF mode = "json" THEN <<WriteLine(FormatTestJson(tcs, hasPartOne, hasPartTwo, entries))>>
  ELSE LET loop == JsonlTestLoop(tcs, 1, hasPartOne, hasPartTwo, [out |-> <<>>, passed |-> 0, failed |-> 0, skipped |-> 0])
       IN <<WriteLine(CreateTestInitial(tcs)), WritePatches(<<ReplacePatch("/status", Str("running"))>>)>>
          \o ConsolePatches(entries)
          \o loop.out
          \o <<WritePatches(<<ReplacePatch("/status", Str("complete")), ReplacePatch("/success", Str(BoolStr(loop.failed = 0)))>>)>>

\* Test mode: } else { const testCases = runTests(source, io, includeSlow); ... }
TestMode ==
  /\ pc = "test"
  /\ LET sol == IsSolutionSource(source)
         units == RunTestsUnits(source, includeSlow)
         con == OutputAll(PutsOf(source, units), Console(consoleBuffer, stdout), captureStartTime, now)
         tcs == RunTests(source, includeSlow)
     IN /\ ran' = TRUE
        /\ evaluated' = units
        /\ IF source.fault # "none"
           THEN /\ thrown' = ErrorOf(source)
                /\ pc' = "catch"
                /\ stdout' = con.out
                /\ consoleBuffer' = con.buffer
                /\ UNCHANGED <<testCases, exitCode>>
           ELSE /\ testCases' = tcs
                /\ stdout' = con.out \o TestOutputLines(outputMode, tcs, sol.hasPartOne, sol.hasPartTwo, con.buffer.entries)
                /\ consoleBuffer' = IF outputMode = "text" THEN con.buffer ELSE NullBuffer
                /\ pc' = "exit"
                /\ exitCode' = TestExitCode(outputMode, tcs)
                /\ UNCHANGED thrown
  /\ UNCHANGED <<outputMode, isTestRun, includeSlow, filename, source, result, captureStartTime, stderr, usage, replLines, now>>

\* An error handler that exits 2 in text mode only.
ErrorExitCodeTextOnly(mode) == IF mode = "text" THEN 2 ELSE 0

\* The code the error handler gives process.exit
ErrorExitCode(mode) == 2

\* The lines the error handler writes.
ErrorLines(mode, testRun, src, err) ==
  IF mode = "text" THEN <<TextLine("source preview"), TextLine(err.message)>>
  ELSE IF mode = "json" THEN <<WriteLine(FormatErrorJson(err))>>
  ELSE LET sol == IsSolutionSource(src)
           initial == IF testRun THEN CreateTestInitial(<<>>)
                      ELSE IF sol.hasPartOne \/ sol.hasPartTwo THEN CreateSolutionInitial(sol.hasPartOne, sol.hasPartTwo)
                      ELSE CreateScriptInitial
       IN <<WriteLine(initial),
            WritePatches(<<ReplacePatch("/status", Str("running"))>>),
            WritePatches(<<ReplacePatch("/status", Str("error")), AddPatch("/error", [message |-> err.message, location |-> [line |-> err.line + 1, column |-> err.column + 1], stack |-> <<>>])>>)>>

\* } catch (err: any) { ... process.exit(2) }
CatchError ==
  /\ pc = "catch"
  /\ stdout' = stdout \o ErrorLines(outputMode, isTestRun, source, thrown)
  /\ consoleBuffer' = IF outputMode = "text" THEN consoleBuffer ELSE NullBuffer
  /\ pc' = "exit"
  /\ exitCode' = ErrorExitCode(outputMode)
  /\ UNCHANGED <<outputMode, isTestRun, includeSlow, filename, source, result, testCases, thrown, captureStartTime, stderr, usage, evaluated, ran, replLines, now>>

\* ---------------------------------------------------- evaluator: state

VARIABLES
  program,         \* the top-level statements being evaluated
  picked,          \* which program was drawn (history)
  control,         \* the evaluate call being made, or the value being handed back
  kont,            \* the evaluator's stack: the callers waiting for a value
  evalResult,      \* the result of the run
  heap,            \* every Environment created so far
  evalOut,         \* the messages given to io.output, in order
  frames,          \* evalStatements frames open now (depth) and at most (maxDepth), bodies started
  runner           \* the solution runner: the section being evaluated and the results so far

evalVars == <<program, picked, control, kont, evalResult, heap, evalOut, frames, runner>>

\* ------------------------------------------------------ evaluator: AST

NoLoc == [line |-> 0, column |-> 0]

IntLit(n) == [kind |-> "Integer", n |-> n]

BoolLit(b) == [kind |-> "Boolean", b |-> b]

StrLit(s) == [kind |-> "Str", s |-> s]

IdAt(name, line, column) == [kind |-> "Identifier", name |-> name, source |-> [line |-> line, column |-> column]]

Id(name) == IdAt(name, 0, 0)

Hole == [kind |-> "Placeholder"]

Call(fn, args) == [kind |-> "CallExpression", function |-> fn, arguments |-> args]

\* Infix operators are calls of the operator's identifier.
Infix(op, left, right) == Call(Id(op), <<left, right>>)

Block(statements) == [kind |-> "BlockStatement", statements |-> statements]

If(condition, consequence, alternative) ==
  [kind |-> "IfExpression", condition |-> condition, consequence |-> Block(consequence), alternative |-> Block(alternative)]

Fn(parameters, statements) == [kind |-> "FunctionLiteral", parameters |-> parameters, body |-> Block(statements)]

Let(name, value) == [kind |-> "Let", name |-> name, isMutable |-> FALSE, value |-> value]

LetMut(name, value) == [kind |-> "Let", name |-> name, isMutable |-> TRUE, value |-> value]

Assign(name, value) == [kind |-> "Assignment", name |-> name, value |-> value]

Return(returnValue) == [kind |-> "Return", returnValue |-> returnValue]

Expr(expression) == [kind |-> "ExpressionStatement", expression |-> expression]

Break(value) == [kind |-> "Break", value |-> value]

\* name: { statements }
Section(name, statements) == [kind |-> "Section", name |-> name, body |-> Block(statements)]

ListLit(elements) == [kind |-> "ListExpression", elements |-> elements]

\* Patterns of match arms: a literal, an identifier (binds), the wildcard.
LiteralPattern(n) == [kind |-> "Literal", n |-> n]

IdentifierPattern(name) == [kind |-> "Identifier", name |-> name]

Wildcard == [kind |-> "Wildcard"]

NoGuard == [kind |-> "NoGuard"]

\* pattern [if guard] { consequence }
MatchCase(pattern, guard, statements) == [pattern |-> pattern, guard |-> guard, consequence |-> Block(statements)]

\* match subject { cases }
Match(subject, cases) == [kind |-> "MatchExpression", subject |-> subject, cases |-> cases]

\* ---------------------------------------------------- evaluator: objects

Integer(n) == [kind |-> "Integer", n |-> n]

Boolean(b) == [kind |-> "Boolean", b |-> b]

String(s) == [kind |-> "String", s |-> s]

NIL == [kind |-> "Nil"]

Placeholder == [kind |-> "Placeholder"]

Func(parameters, body, environment) == [kind |-> "Func", parameters |-> parameters, body |-> body, environment |-> environment]

BuiltinFunc(name, parameters, environment) == [kind |-> "BuiltinFunc", name |-> name, parameters |-> parameters, environment |-> environment]

TailCallFunc(parameters, body, environment) == [kind |-> "TailCallFunc", parameters |-> parameters, body |-> body, environment |-> environment]

ReturnValue(v) == [kind |-> "ReturnValue", value |-> v]

BreakValue(v) == [kind |-> "BreakValue", value |-> v]

List(items) == [kind |-> "List", items |-> items]

\* O.Section: a declared section and its body
SectionObject(name, body) == [kind |-> "Section", name |-> name, body |-> body]

\* class Err: message and the node's source location (0, 0 when absent)
Err(message, loc) == [kind |-> "Err", message |-> message, line |-> loc.line, column |-> loc.column]

\* getVariable's undefined
Undefined == [kind |-> "Undefined"]

\* Nil is false; Boolean is itself; Integer 0 is false; the empty String is
\* false; all other values are true.
IsTruthy(v) ==
  IF v.kind = "Nil" THEN FALSE
  ELSE IF v.kind = "Boolean" THEN v.b
  ELSE IF v.kind = "Integer" THEN v.n # 0
  ELSE IF v.kind = "String" THEN v.s # ""
  ELSE TRUE

\* inspect: the canonical text of a value
Inspect(v) ==
  IF v.kind = "Integer" THEN ToString(v.n)
  ELSE IF v.kind = "Boolean" THEN BoolStr(v.b)
  ELSE IF v.kind = "String" THEN v.s
  ELSE IF v.kind = "Nil" THEN "nil"
  ELSE IF v.kind = "Err" THEN v.message
  ELSE v.kind

\* --------------------------------------------------- evaluator: Environment

\* new O.Environment(parent): parent 0 is null
Environment(parent) == [parent |-> parent, variables |-> <<>>, sections |-> <<>>]

Root == 1

Declared(scope, name) == {i \in 1..Len(scope.variables) : scope.variables[i].name = name}

\* A lookup that takes the newest binding of the name in any scope.
GetVariableAnywhere(scopes, env, name) ==
  LET holders == {e \in 1..Len(scopes) : Declared(scopes[e], name) # {}}
  IN IF holders = {} THEN Undefined
     ELSE LET e == CHOOSE h \in holders : \A g \in holders : g <= h
          IN scopes[e].variables[CHOOSE i \in Declared(scopes[e], name) : TRUE].value

RECURSIVE GetVariable(_, _, _)
\* getVariable(name): this scope, else the parent chain, else undefined
GetVariable(scopes, env, name) ==
  IF env = 0 THEN Undefined
  ELSE LET found == Declared(scopes[env], name)
       IN IF found # {} THEN scopes[env].variables[CHOOSE i \in found : TRUE].value
          ELSE GetVariable(scopes, scopes[env].parent, name)

\* declareVariable(name, value, isMutable); the caller checks Declared first
DeclareVariable(scopes, env, name, value, isMutable) ==
  [scopes EXCEPT ![env].variables = Append(@, [name |-> name, value |-> value, isMutable |-> isMutable])]

\* addSection(name, value): appends to the scope's sections
AddSection(scopes, env, section) == [scopes EXCEPT ![env].sections = Append(@, section)]

\* getSection(name) on the root scope: the sections of that name, in
\* declaration order
GetSection(scopes, env, name) == SelectSeq(scopes[env].sections, LAMBDA section : section.name = name)

RECURSIVE OwnerOf(_, _, _)
\* the scope of the parent chain that holds name (0 when none does)
OwnerOf(scopes, env, name) ==
  IF env = 0 THEN 0
  ELSE IF Declared(scopes[env], name) # {} THEN env
  ELSE OwnerOf(scopes, scopes[env].parent, name)

\* setVariable(name, value) on the scope that holds name
SetVariable(scopes, owner, name, value) ==
  LET i == CHOOSE j \in Declared(scopes[owner], name) : TRUE
  IN [scopes EXCEPT ![owner].variables[i].value = value]

\* A cell test that takes every cell for mutable.
IsMutableAlways(scopes, owner, name) == TRUE

IsMutable(scopes, owner, name) ==
  LET i == CHOOSE j \in Declared(scopes[owner], name) : TRUE
  IN scopes[owner].variables[i].isMutable

\* --------------------------------------------------- evaluator: evaluate

\* The evaluator's recursion is kept as an explicit stack: control is the
\* call being made (evaluate(node, environment)) or the value being handed
\* back, kont holds the callers that wait for a value, innermost last.
EvalOf(node, env, tail) == [mode |-> "eval", node |-> node, env |-> env, tail |-> tail]

ValueOf(v) == [mode |-> "value", val |-> v]

Top(k) == k[Len(k)]

Pop(k) == SubSeq(k, 1, Len(k) - 1)

\* A machine state: control, kont, the environments, the output so far and
\* the frame counters.
Machine(c, k, scopes, out, fr) == [control |-> c, kont |-> k, scopes |-> scopes, out |-> out, frames |-> fr]

\* An `instanceof` test that never succeeds.
InstanceOfNothing(v) == FALSE

\* result instanceof O.TailCallFunc
IsTailCallFunc(v) == v.kind = "TailCallFunc"

\* An error test that never succeeds.
NeverErr(v) == FALSE

\* result instanceof O.Err
IsErr(v) == v.kind = "Err"

\* A carrier test that knows errors and tail-call requests only.
IsErrOrTailCall(v) == IsErr(v) \/ v.kind = "TailCallFunc"

\* The control-flow carriers that stop a block and propagate outward.
IsCarrier(v) == IsErr(v) \/ v.kind \in {"ReturnValue", "BreakValue", "TailCallFunc"}

Builtins == {"+", "-", "==", "puts", "fold", "map"}

\* BuiltinFuncTemplate.parameters (puts takes any number of arguments)
BuiltinParameters(name) ==
  IF name = "puts" THEN <<>>
  ELSE IF name = "fold" THEN <<"initial", "folder", "collection">>
  ELSE IF name = "map" THEN <<"mapper", "collection">>
  ELSE <<"a", "b">>

RECURSIVE PickFrom(_, _, _)
\* the elements of seq at the positions in keep, in order, from position i on
PickFrom(seq, keep, i) ==
  IF i > Len(seq) THEN <<>>
  ELSE (IF i \in keep THEN <<seq[i]>> ELSE <<>>) \o PickFrom(seq, keep, i + 1)

\* extendFunctionEnv(fn, args): a child of the closure's environment binding
\* each parameter that has an argument other than a Placeholder; the
\* parameters left over keep their order.
ExtendFunctionEnv(fn, args, scopes) ==
  LET n == Len(fn.parameters)
      bound == {i \in 1..n : i <= Len(args) /\ args[i].kind # "Placeholder"}
      cells == [i \in 1..n |-> [name |-> fn.parameters[i], value |-> IF i \in bound THEN args[i] ELSE NIL, isMutable |-> FALSE]]
  IN [environment |-> Len(scopes) + 1,
      parameters |-> PickFrom(fn.parameters, (1..n) \ bound, 1),
      scopes |-> Append(scopes, [parent |-> fn.environment, variables |-> PickFrom(cells, bound, 1), sections |-> <<>>])]

\* A partial-application test that counts arguments only.
IsPartialByCount(fn, args) == Len(args) < Len(fn.parameters)

\* args.length < fn.parameters.length || hasPlaceholder
IsPartial(fn, args) ==
  Len(args) < Len(fn.parameters) \/ \E i \in 1..Len(args) : args[i].kind = "Placeholder"

\* A detection that never recognises a tail call.
NeverTailCall(statement, i, n) == FALSE

\* evalStatementsLoop's detection: an explicit return of a call, or a call as
\* the last expression statement (i and n are 1-based position and length).
IsTailCall(statement, i, n) ==
  \/ statement.kind = "Return" /\ statement.returnValue.kind = "CallExpression"
  \/ i = n /\ statement.kind = "ExpressionStatement" /\ statement.expression.kind = "CallExpression"

\* A short-circuit that always evaluates the right operand.
RightAlways(op, left) == TRUE

\* if (!left.isTruthy()) return O.FALSE: `a && b` needs b when a is truthy
\* (and `a || b` when a is falsy).
RightNeeded(op, left) == IF op = "&&" THEN IsTruthy(left) ELSE ~IsTruthy(left)

\* The body of a built-in, reading its parameters from the environment.
BuiltinBody(name, scopes, env) ==
  LET a == GetVariable(scopes, env, "a")
      b == GetVariable(scopes, env, "b")
  IN IF name = "==" THEN Boolean(a.kind = b.kind /\ a = b)
     ELSE IF a.kind # "Integer" \/ b.kind # "Integer" THEN Err("Unexpected operation: " \o a.kind \o " " \o name \o " " \o b.kind, NoLoc)
     ELSE IF name = "+" THEN Integer(a.n + b.n)
     ELSE Integer(a.n - b.n)

RECURSIVE InspectAll(_)
InspectAll(args) == IF Len(args) = 0 THEN <<>> ELSE <<Inspect(args[1])>> \o InspectAll(Tail(args))

\* puts(...args) through io.output: a no-op without arguments
Puts(args, out) == IF Len(args) = 0 THEN out ELSE Append(out, Join(InspectAll(args)))

\* The waiting callers.
LoopFrame(statements, i, env, tail) == [kind |-> "evalStatementsLoop", statements |-> statements, i |-> i, env |-> env, tail |-> tail]

StatementsFrame == [kind |-> "evalStatements"]

ApplyFrame == [kind |-> "applyFunction"]

ReturnFrame == [kind |-> "return"]

BindFrame(statement, env) == [kind |-> "bind", statement |-> statement, env |-> env]

IfFrame(node, env, tail) == [kind |-> "if", node |-> node, env |-> env, tail |-> tail]

LeftFrame(node, env) == [kind |-> "left", node |-> node, env |-> env]

RightFrame == [kind |-> "right"]

CalleeFrame(node, env, tail) == [kind |-> "callee", node |-> node, env |-> env, tail |-> tail]

BreakFrame == [kind |-> "break"]

ElementsFrame(node, env, items) == [kind |-> "elements", node |-> node, env |-> env, items |-> items]

FoldFrame(folder, items, i) == [kind |-> "fold", folder |-> folder, items |-> items, i |-> i]

MapFrame(mapper, items, i, mapped, args) == [kind |-> "map", mapper |-> mapper, items |-> items, i |-> i, mapped |-> mapped, args |-> args]

MatchFrame(node, env, tail) == [kind |-> "match", node |-> node, env |-> env, tail |-> tail]

GuardFrame(node, env, tail, subject, i, caseEnv) ==
  [kind |-> "guard", node |-> node, env |-> env, tail |-> tail, subject |-> subject, i |-> i, caseEnv |-> caseEnv]

ArgsFrame(node, env, tail, fn, args) == [kind |-> "args", node |-> node, env |-> env, tail |-> tail, fn |-> fn, args |-> args]

\* evalStatementsLoop starts statement i of statements (no statement: the
\* block's value is nil). A call is evaluated as a tail call when the
\* detection recognises it (and, for the last expression, the block is in
\* tail position); the branches of an if are in tail position when the if is.
StartLoop(statements, i, env, tail, k) ==
  IF i > Len(statements) THEN [control |-> ValueOf(NIL), kont |-> k]
  ELSE LET statement == statements[i]
           n == Len(statements)
           k1 == Append(k, LoopFrame(statements, i, env, tail))
       IN CASE statement.kind = "ExpressionStatement" ->
                 [control |-> EvalOf(statement.expression, env,
                                     IF statement.expression.kind = "CallExpression" THEN tail /\ IsTailCall(statement, i, n) ELSE tail /\ i = n),
                  kont |-> k1]
            [] statement.kind = "Return" ->
                 [control |-> EvalOf(statement.returnValue, env,
                                     IF statement.returnValue.kind = "CallExpression" THEN IsTailCall(statement, i, n) ELSE TRUE),
                  kont |-> Append(k1, ReturnFrame)]
            [] statement.kind = "Section" -> [control |-> EvalOf(statement, env, FALSE), kont |-> k1]
            [] statement.kind = "Break" ->
                 [control |-> EvalOf(statement.value, env, FALSE), kont |-> Append(k1, BreakFrame)]
            [] OTHER -> [control |-> EvalOf(statement.value, env, FALSE), kont |-> Append(k1, BindFrame(statement, env))]

\* A let or an assignment once its value v is evaluated: the value handed
\* back and the environments.
Bind(statement, env, v, scopes) ==
  CASE IsCarrier(v) -> [val |-> v, scopes |-> scopes]
    [] ~IsCarrier(v) /\ statement.kind = "Let" ->
         IF Declared(scopes[env], statement.name) # {}
         THEN [val |-> Err("Variable already declared: " \o statement.name, NoLoc), scopes |-> scopes]
         ELSE [val |-> v, scopes |-> DeclareVariable(scopes, env, statement.name, v, statement.isMutable)]
    [] OTHER ->
         LET owner == OwnerOf(scopes, env, statement.name)
         IN IF owner = 0 THEN [val |-> Err("Variable not found: " \o statement.name, NoLoc), scopes |-> scopes]
            ELSE IF ~IsMutable(scopes, owner, statement.name) THEN [val |-> Err("Variable is not mutable: " \o statement.name, NoLoc), scopes |-> scopes]
            ELSE [val |-> v, scopes |-> SetVariable(scopes, owner, statement.name, v)]

\* A pattern test that lets every pattern match.
PatternMatchesAny(pattern, v) == TRUE

\* A literal pattern matches by equals; an identifier and the wildcard match
\* anything.
PatternMatches(pattern, v) == pattern.kind = "Literal" => (v.kind = "Integer" /\ v.n = pattern.n)

\* The scope of an arm: the match's scope extended with the pattern's
\* bindings.
CaseEnvironment(scopes, env, pattern, v) ==
  IF pattern.kind = "Identifier"
  THEN DeclareVariable(Append(scopes, Environment(env)), Len(scopes) + 1, pattern.name, v, FALSE)
  ELSE Append(scopes, Environment(env))

\* No arm matched: a DomainError at the scrutinee.
NoMatchingCase(node) == Err("DomainError", node.subject.source)

RECURSIVE TryCases(_, _, _, _, _, _, _, _, _)

\* evalMatchExpression from arm i on, the scrutinee's value being v: the
\* first arm whose pattern matches has its guard evaluated in the arm's
\* scope, or, without a guard, its body.
TryCases(node, v, i, env, tail, k, scopes, out, fr) ==
  IF i > Len(node.cases) THEN Machine(ValueOf(NoMatchingCase(node)), k, scopes, out, fr)
  ELSE IF ~PatternMatches(node.cases[i].pattern, v) THEN TryCases(node, v, i + 1, env, tail, k, scopes, out, fr)
  ELSE LET extended == CaseEnvironment(scopes, env, node.cases[i].pattern, v)
           caseEnv == Len(scopes) + 1
       IN IF node.cases[i].guard.kind # "NoGuard"
          THEN Machine(EvalOf(node.cases[i].guard, caseEnv, FALSE), Append(k, GuardFrame(node, env, tail, v, i, caseEnv)), extended, out, fr)
          ELSE LET start == StartLoop(node.cases[i].consequence.statements, 1, caseEnv, tail, k)
               IN Machine(start.control, start.kont, extended, out, fr)

RECURSIVE CallWith(_, _, _, _, _, _, _)

\* fold(initial, folder, collection) at element i with the accumulator acc:
\* applyFunction(folder, [acc, element]), or acc after the last element.
FoldStep(folder, acc, items, i, k, scopes, out, fr) ==
  IF i > Len(items) THEN Machine(ValueOf(acc), k, scopes, out, fr)
  ELSE CallWith(folder, <<acc, items[i]>>, FALSE, Append(k, FoldFrame(folder, items, i)), scopes, out, fr)

\* An arity detection that passes the key to every callback with a parameter.
PassKeyFromOne(mapper) == mapper.kind \in {"Func", "BuiltinFunc"} /\ Len(mapper.parameters) >= 1

\* const passKey = (mapper instanceof O.Func || mapper instanceof O.BuiltinFunc)
\*   && mapper.parameters.length >= 2
PassKey(mapper) == mapper.kind \in {"Func", "BuiltinFunc"} /\ Len(mapper.parameters) >= 2

\* collection.map((v, k) => applyFunction(mapper, passKey ? [v, k] : [v])) at
\* element i (k is the 0-based index of a List), or the mapped List after the
\* last element.
MapStep(mapper, mapped, items, i, k, scopes, out, fr) ==
  IF i > Len(items) THEN Machine(ValueOf(List(mapped)), k, scopes, out, fr)
  ELSE LET args == IF PassKey(mapper) THEN <<items[i], Integer(i - 1)>> ELSE <<items[i]>>
       IN CallWith(mapper, args, FALSE, Append(k, MapFrame(mapper, items, i, mapped, args)), scopes, out, fr)

\* The body of map, reading its parameters from the environment.
MapBody(scopes, env, k, out, fr) ==
  LET collection == GetVariable(scopes, env, "collection")
  IN IF collection.kind # "List"
     THEN Machine(ValueOf(Err("Unexpected argument: map(" \o collection.kind \o ")", NoLoc)), k, scopes, out, fr)
     ELSE MapStep(GetVariable(scopes, env, "mapper"), <<>>, collection.items, 1, k, scopes, out, fr)

\* The body of fold, reading its parameters from the environment.
FoldBody(scopes, env, k, out, fr) ==
  LET collection == GetVariable(scopes, env, "collection")
  IN IF collection.kind # "List"
     THEN Machine(ValueOf(Err("Unexpected argument: fold(" \o collection.kind \o ")", NoLoc)), k, scopes, out, fr)
     ELSE FoldStep(GetVariable(scopes, env, "folder"), GetVariable(scopes, env, "initial"), collection.items, 1, k, scopes, out, fr)

\* evalCallExpression once the callee fn and the arguments args are
\* evaluated: a partial application returns a new function, a call in tail
\* position of a user function returns a tail-call request, otherwise
\* applyFunction runs the built-in or enters the body in an evalStatements
\* frame.
CallWith(fn, args, tail, k, scopes, out, fr) ==
  IF fn.kind \notin {"Func", "BuiltinFunc"}
  THEN Machine(ValueOf(Err("Expected a Function, found: " \o fn.kind, NoLoc)), k, scopes, out, fr)
  ELSE IF fn.kind = "BuiltinFunc" /\ fn.name = "puts"
  THEN Machine(ValueOf(NIL), k, scopes, Puts(args, out), fr)
  ELSE LET e == ExtendFunctionEnv(fn, args, scopes)
       IN IF IsPartial(fn, args)
          THEN Machine(ValueOf([fn EXCEPT !.parameters = e.parameters, !.environment = e.environment]), k, e.scopes, out, fr)
          ELSE IF fn.kind = "BuiltinFunc" /\ fn.name = "fold"
          THEN FoldBody(e.scopes, e.environment, k, out, fr)
          ELSE IF fn.kind = "BuiltinFunc" /\ fn.name = "map"
          THEN MapBody(e.scopes, e.environment, k, out, fr)
          ELSE IF fn.kind = "BuiltinFunc"
          THEN Machine(ValueOf(BuiltinBody(fn.name, e.scopes, e.environment)), k, e.scopes, out, fr)
          ELSE IF tail
          THEN Machine(ValueOf(TailCallFunc(fn.parameters, fn.body, e.environment)), k, e.scopes, out, fr)
          ELSE LET start == StartLoop(fn.body.statements, 1, e.environment, TRUE, k \o <<ApplyFrame, StatementsFrame>>)
               IN Machine(start.control, start.kont, e.scopes, out,
                          [depth |-> fr.depth + 1, maxDepth |-> IF fr.depth + 1 > fr.maxDepth THEN fr.depth + 1 ELSE fr.maxDepth, bodies |-> fr.bodies + 1])

\* --------------------------------------------------- evaluator: programs

Case(template, n, x, y) == [template |-> template, n |-> n, x |-> x, y |-> y]

NoCase == Case("none", 0, 0, 0)

Operands == 0..MaxOperand

\* The left operands tried with && and ||: true, false, 0, 2, "" and "s".
LeftOperands == <<BoolLit(TRUE), BoolLit(FALSE), IntLit(0), IntLit(2), StrLit(""), StrLit("s")>>

\* The places an error is put at (see ErrorStatement).
ErrorPlaces == 1..9

\* The declarations and assignments tried (see ScopeStatement).
ScopePlaces == 1..7

\* The last statements tried after the closures ran (see ClosureStatement).
ClosurePlaces == 1..4

\* The callbacks given to map: user functions of one, two and no parameter,
\* the built-in + and the built-in + applied to one argument.
Mappers == 1..5

Cases ==
  {Case(t, n, 0, 0) : t \in {"sumTail", "sumReturn", "evenOdd", "sumNested"}, n \in 0..MaxDepth}
  \cup {Case("letReturn", 0, x, 0) : x \in 0..1}
  \cup {Case(t, 0, x, y) : t \in {"and", "or"}, x \in 1..Len(LeftOperands), y \in 0..1}
  \cup {Case(t, 0, x, y) : t \in {"partial", "partialBuiltin"}, x \in Operands, y \in Operands}
  \cup {Case("error", n, 0, 0) : n \in ErrorPlaces}
  \cup {Case("carriers", 0, x, y) : x \in 0..1, y \in 0..MaxItems}
  \cup {Case("scopes", n, 0, 0) : n \in ScopePlaces}
  \cup {Case("closures", n, 0, 0) : n \in ClosurePlaces}
  \cup {Case("solution", n, parts[1], parts[2]) : n \in 0..1, parts \in {<<1, 0>>, <<0, 1>>, <<1, 1>>}}
  \cup {Case("match", n, x, 0) : n \in 0..1, x \in 0..MaxItems}
  \cup {Case("map", n, x, 0) : n \in Mappers, x \in 0..MaxItems}

PutsCall(args) == Call(Id("puts"), args)

Missing == IdAt("missing", 2, 7)

\* let sum = |n, acc| { if n == 0 { acc } else { sum(n - 1, acc + n) } }; sum(N, 0)
SumTail(n) ==
  <<Let("sum", Fn(<<"n", "acc">>,
      <<Expr(If(Infix("==", Id("n"), IntLit(0)),
                <<Expr(Id("acc"))>>,
                <<Expr(Call(Id("sum"), <<Infix("-", Id("n"), IntLit(1)), Infix("+", Id("acc"), Id("n"))>>))>>))>>)),
    Expr(Call(Id("sum"), <<IntLit(n), IntLit(0)>>))>>

\* let sum = |n, acc| { if n == 0 { return acc }; return sum(n - 1, acc + n) };
\* let total = sum(N, 0); total
SumReturn(n) ==
  <<Let("sum", Fn(<<"n", "acc">>,
      <<Expr(If(Infix("==", Id("n"), IntLit(0)), <<Return(Id("acc"))>>, <<>>)),
        Return(Call(Id("sum"), <<Infix("-", Id("n"), IntLit(1)), Infix("+", Id("acc"), Id("n"))>>))>>)),
    Let("total", Call(Id("sum"), <<IntLit(n), IntLit(0)>>)),
    Expr(Id("total"))>>

\* let even = |n| { if n == 0 { true } else { odd(n - 1) } };
\* let odd = |n| { if n == 0 { false } else { even(n - 1) } };
\* let total = even(N); total
EvenOdd(n) ==
  <<Let("even", Fn(<<"n">>, <<Expr(If(Infix("==", Id("n"), IntLit(0)), <<Expr(BoolLit(TRUE))>>, <<Expr(Call(Id("odd"), <<Infix("-", Id("n"), IntLit(1))>>))>>))>>)),
    Let("odd", Fn(<<"n">>, <<Expr(If(Infix("==", Id("n"), IntLit(0)), <<Expr(BoolLit(FALSE))>>, <<Expr(Call(Id("even"), <<Infix("-", Id("n"), IntLit(1))>>))>>))>>)),
    Let("total", Call(Id("even"), <<IntLit(n)>>)),
    Expr(Id("total"))>>

\* let sum = |n| { if n == 0 { 0 } else { n + sum(n - 1) } }; let total = sum(N); total
SumNested(n) ==
  <<Let("sum", Fn(<<"n">>,
      <<Expr(If(Infix("==", Id("n"), IntLit(0)),
                <<Expr(IntLit(0))>>,
                <<Expr(Infix("+", Id("n"), Call(Id("sum"), <<Infix("-", Id("n"), IntLit(1))>>)))>>))>>)),
    Let("total", Call(Id("sum"), <<IntLit(n)>>)),
    Expr(Id("total"))>>

\* let id = |v| { v };
\* let f = |c| { let got = if c { return id(7) } else { id(8) }; got + 1 };
\* let total = f(X); total
LetReturn(x) ==
  <<Let("id", Fn(<<"v">>, <<Expr(Id("v"))>>)),
    Let("f", Fn(<<"c">>,
      <<Let("got", If(Id("c"), <<Return(Call(Id("id"), <<IntLit(7)>>))>>, <<Expr(Call(Id("id"), <<IntLit(8)>>))>>)),
        Expr(Infix("+", Id("got"), IntLit(1)))>>)),
    Let("total", Call(Id("f"), <<IntLit(x)>>)),
    Expr(Id("total"))>>

\* let mut hits = 0; let touch = |v| { hits = hits + 1; puts("x"); v };
\* let total = LEFT op touch(RIGHT); total
ShortCircuit(op, x, y) ==
  <<LetMut("hits", IntLit(0)),
    Let("touch", Fn(<<"v">>, <<Assign("hits", Infix("+", Id("hits"), IntLit(1))), Expr(PutsCall(<<StrLit("x")>>)), Expr(Id("v"))>>)),
    Let("total", Infix(op, LeftOperands[x], Call(Id("touch"), <<IntLit(y)>>))),
    Expr(Id("total"))>>

\* let f = |a, b| { puts("f"); a - b }   (or let f = -)
\* let p = f(_, Y); let q = f(X); let r1 = p(X); let r2 = f(X, Y); let r3 = q(Y); [r1, r2, r3]
Partial(builtin, x, y) ==
  <<Let("f", IF builtin THEN Id("-") ELSE Fn(<<"a", "b">>, <<Expr(PutsCall(<<StrLit("f")>>)), Expr(Infix("-", Id("a"), Id("b")))>>)),
    Let("p", Call(Id("f"), <<Hole, IntLit(y)>>)),
    Let("q", Call(Id("f"), <<IntLit(x)>>)),
    Let("r1", Call(Id("p"), <<IntLit(x)>>)),
    Let("r2", Call(Id("f"), <<IntLit(x), IntLit(y)>>)),
    Let("r3", Call(Id("q"), <<IntLit(y)>>)),
    Expr(Call(Call(Id("f"), <<Hole, IntLit(y)>>), <<IntLit(x)>>))>>

Late == PutsCall(<<StrLit("late")>>)

\* The statement that fails, for each place an error can arise at: the
\* statement itself, a call argument, the callee, an operand, the left of &&
\* and of ||, a function body, an if condition, a let inside a branch.
ErrorStatement(place) ==
  IF place = 1 THEN Expr(Missing)
  ELSE IF place = 2 THEN Expr(PutsCall(<<StrLit("early"), Missing, Late>>))
  ELSE IF place = 3 THEN Expr(Call(Missing, <<Late>>))
  ELSE IF place = 4 THEN Let("v", Infix("+", Missing, Late))
  ELSE IF place = 5 THEN Let("v", Infix("&&", Missing, Late))
  ELSE IF place = 6 THEN Let("v", Infix("||", Missing, Late))
  ELSE IF place = 7 THEN Expr(Call(Fn(<<"a">>, <<Expr(Missing), Expr(Late)>>), <<IntLit(1)>>))
  ELSE IF place = 8 THEN Expr(If(Missing, <<Expr(Late)>>, <<Expr(Late)>>))
  ELSE Let("v", If(BoolLit(TRUE), <<Let("w", Infix("==", Missing, Missing)), Expr(Late)>>, <<>>))

\* puts("before"); <the failing statement>; puts("after"); let z = 1
ErrorProgram(place) ==
  <<Expr(PutsCall(<<StrLit("before")>>)),
    ErrorStatement(place),
    Expr(PutsCall(<<StrLit("after")>>)),
    LetMut("z", IntLit(1))>>

\* let mut seen = 0;
\* let f = |a| { if a == 1 { if true { return 10; puts("late") }; puts("late") }; puts("tail"); 20 };
\* let r = f(X);
\* puts("next");
\* let g = fold(0, |acc, v| { seen = seen + 1;
\*                            if v == Y { if true { break 100; puts("late") }; puts("late") };
\*                            puts("visit"); acc + v }, [1, .., MaxItems]);
\* puts("after");
\* g
Carriers(x, y) ==
  <<LetMut("seen", IntLit(0)),
    Let("f", Fn(<<"a">>,
      <<Expr(If(Infix("==", Id("a"), IntLit(1)),
                <<Expr(If(BoolLit(TRUE), <<Return(IntLit(10)), Expr(Late)>>, <<>>)), Expr(Late)>>,
                <<>>)),
        Expr(PutsCall(<<StrLit("tail")>>)),
        Expr(IntLit(20))>>)),
    Let("r", Call(Id("f"), <<IntLit(x)>>)),
    Expr(PutsCall(<<StrLit("next")>>)),
    Let("g", Call(Id("fold"),
      <<IntLit(0),
        Fn(<<"acc", "v">>,
          <<Assign("seen", Infix("+", Id("seen"), IntLit(1))),
            Expr(If(Infix("==", Id("v"), IntLit(y)),
                    <<Expr(If(BoolLit(TRUE), <<Break(IntLit(100)), Expr(Late)>>, <<>>)), Expr(Late)>>,
                    <<>>)),
            Expr(PutsCall(<<StrLit("visit")>>)),
            Expr(Infix("+", Id("acc"), Id("v")))>>),
        ListLit([i \in 1..MaxItems |-> IntLit(i)])>>)),
    Expr(PutsCall(<<StrLit("after")>>)),
    Expr(Id("g"))>>

\* The declaration or assignment tried: a second let of a name of the same
\* scope (immutable a, mutable m), an assignment to an immutable cell, to a
\* name no scope declares, to an immutable cell of the parent from a child
\* scope, to a mutable cell, and to a mutable cell that shadows the root's.
ScopeStatement(place) ==
  IF place = 1 THEN Let("a", IntLit(5))
  ELSE IF place = 2 THEN Assign("a", IntLit(5))
  ELSE IF place = 3 THEN Assign("nope", IntLit(5))
  ELSE IF place = 4 THEN LetMut("m", IntLit(5))
  ELSE IF place = 5 THEN Expr(Call(Fn(<<>>, <<Assign("a", IntLit(3))>>), <<>>))
  ELSE IF place = 6 THEN Assign("m", IntLit(7))
  ELSE Let("t", Call(Fn(<<>>, <<LetMut("m", IntLit(0)), Assign("m", IntLit(5)), Expr(Id("m"))>>), <<>>))

\* let mut m = 1; let a = 1;
\* let f = || { let a = 2; m = m + 10; a };
\* let s = f();
\* <the declaration or assignment tried>;
\* puts("after"); m
ScopeProgram(place) ==
  <<LetMut("m", IntLit(1)),
    Let("a", IntLit(1)),
    Let("f", Fn(<<>>, <<Let("a", IntLit(2)), Assign("m", Infix("+", Id("m"), IntLit(10))), Expr(Id("a"))>>)),
    Let("s", Call(Id("f"), <<>>)),
    ScopeStatement(place),
    Expr(PutsCall(<<StrLit("after")>>)),
    Expr(Id("m"))>>

\* The last statement: a let of a finished call (k), a parameter of a
\* finished call (n), a function whose free variable y is a parameter of its
\* caller only, or the results.
ClosureStatement(place) ==
  IF place = 1 THEN Expr(Id("k"))
  ELSE IF place = 2 THEN Expr(Id("n"))
  ELSE IF place = 3 THEN Expr(Infix("+", Call(Id("caller2"), <<IntLit(5)>>), IntLit(0)))
  ELSE Expr(ListLit(<<Id("r1"), Id("r2"), Id("r3"), Id("r4")>>))

\* let x = 1;
\* let show = || { x };
\* let caller = |x| { let y = 50; show() + 0 };
\* let r1 = caller(99);
\* let make = |n| { let k = n + 1; || { k } };
\* let c1 = make(10); let c2 = make(20);
\* let r2 = c1(); let r3 = c2();
\* let near = || { let x = 7; || { x } };
\* let r4 = near()();
\* let peek = || { y };
\* let caller2 = |y| { peek() + 0 };
\* <the last statement>
ClosureProgram(place) ==
  <<Let("x", IntLit(1)),
    Let("show", Fn(<<>>, <<Expr(Id("x"))>>)),
    Let("caller", Fn(<<"x">>, <<Let("y", IntLit(50)), Expr(Infix("+", Call(Id("show"), <<>>), IntLit(0)))>>)),
    Let("r1", Call(Id("caller"), <<IntLit(99)>>)),
    Let("make", Fn(<<"n">>, <<Let("k", Infix("+", Id("n"), IntLit(1))), Expr(Fn(<<>>, <<Expr(Id("k"))>>))>>)),
    Let("c1", Call(Id("make"), <<IntLit(10)>>)),
    Let("c2", Call(Id("make"), <<IntLit(20)>>)),
    Let("r2", Call(Id("c1"), <<>>)),
    Let("r3", Call(Id("c2"), <<>>)),
    Let("near", Fn(<<>>, <<Let("x", IntLit(7)), Expr(Fn(<<>>, <<Expr(Id("x"))>>))>>)),
    Let("r4", Call(Call(Id("near"), <<>>), <<>>)),
    Let("peek", Fn(<<>>, <<Expr(IdAt("y", 10, 17))>>)),
    Let("caller2", Fn(<<"y">>, <<Expr(Infix("+", Call(Id("peek"), <<>>), IntLit(0)))>>)),
    ClosureStatement(place)>>

\* puts("top"); let base = 10;
\* input: { puts("input"); base + 1 }
\* part_one: { puts("one"); let local = input + 1; local }     (when x = 1)
\* part_two: { puts("two"); input + 2 }                        (when y = 1)
\* with n = 1 part_two is { puts("two"); local }
Solution(n, x, y) ==
  <<Expr(PutsCall(<<StrLit("top")>>)),
    Let("base", IntLit(10)),
    Section("input", <<Expr(PutsCall(<<StrLit("input")>>)), Expr(Infix("+", Id("base"), IntLit(1)))>>)>>
  \o (IF x = 1
      THEN <<Section("part_one", <<Expr(PutsCall(<<StrLit("one")>>)), Let("local", Infix("+", Id("input"), IntLit(1))), Expr(Id("local"))>>)>>
      ELSE <<>>)
  \o (IF y = 1
      THEN <<Section("part_two", <<Expr(PutsCall(<<StrLit("two")>>)), Expr(IF n = 1 THEN Id("local") ELSE Infix("+", Id("input"), IntLit(2)))>>)>>
      ELSE <<>>)

\* A guard that is seen when evaluated: puts(name) || test
SeenGuard(name, test) == Infix("||", PutsCall(<<StrLit(name)>>), test)

\* let s = X;
\* match s {
\*   0 { puts("b1"); 10 }
\*   n if puts("g2") || n == 1 { puts("b2"); n + 20 }
\*   m if puts("g3") || m == 1 || m == 2 { puts("b3"); 30 }
\*   _ { puts("b4"); 40 }        (when wild = 1)
\* }
MatchProgram(wild, x) ==
  <<Let("s", IntLit(x)),
    Expr(Match(IdAt("s", 2, 7),
      <<MatchCase(LiteralPattern(0), NoGuard, <<Expr(PutsCall(<<StrLit("b1")>>)), Expr(IntLit(10))>>),
        MatchCase(IdentifierPattern("n"), SeenGuard("g2", Infix("==", Id("n"), IntLit(1))),
                  <<Expr(PutsCall(<<StrLit("b2")>>)), Expr(Infix("+", Id("n"), IntLit(20)))>>),
        MatchCase(IdentifierPattern("m"), SeenGuard("g3", Infix("||", Infix("==", Id("m"), IntLit(1)), Infix("==", Id("m"), IntLit(2)))),
                  <<Expr(PutsCall(<<StrLit("b3")>>)), Expr(IntLit(30))>>)>>
      \o (IF wild = 1 THEN <<MatchCase(Wildcard, NoGuard, <<Expr(PutsCall(<<StrLit("b4")>>)), Expr(IntLit(40))>>)>> ELSE <<>>)))>>

\* The callback of map.
Mapper(kind) ==
  IF kind = 1 THEN Fn(<<"v">>, <<Expr(PutsCall(<<Id("v")>>)), Expr(Infix("+", Id("v"), IntLit(10)))>>)
  ELSE IF kind = 2 THEN Fn(<<"v", "i">>, <<Expr(PutsCall(<<Id("v"), Id("i")>>)), Expr(Infix("+", Id("v"), Id("i")))>>)
  ELSE IF kind = 3 THEN Id("+")
  ELSE IF kind = 4 THEN Call(Id("+"), <<IntLit(10)>>)
  ELSE Fn(<<>>, <<Expr(PutsCall(<<StrLit("z")>>)), Expr(IntLit(7))>>)

\* let f = MAPPER;
\* let r = map(f, [5, 6, ..]);       (size elements)
\* puts("end");
\* r
MapProgram(kind, size) ==
  <<Let("f", Mapper(kind)),
    Let("r", Call(Id("map"), <<Id("f"), ListLit([i \in 1..size |-> IntLit(i + 4)])>>)),
    Expr(PutsCall(<<StrLit("end")>>)),
    Expr(Id("r"))>>

ProgramOf(c) ==
  IF c.template = "sumTail" THEN SumTail(c.n)
  ELSE IF c.template = "sumReturn" THEN SumReturn(c.n)
  ELSE IF c.template = "evenOdd" THEN EvenOdd(c.n)
  ELSE IF c.template = "sumNested" THEN SumNested(c.n)
  ELSE IF c.template = "letReturn" THEN LetReturn(c.x)
  ELSE IF c.template = "and" THEN ShortCircuit("&&", c.x, c.y)
  ELSE IF c.template = "or" THEN ShortCircuit("||", c.x, c.y)
  ELSE IF c.template = "partial" THEN Partial(FALSE, c.x, c.y)
  ELSE IF c.template = "partialBuiltin" THEN Partial(TRUE, c.x, c.y)
  ELSE IF c.template = "error" THEN ErrorProgram(c.n)
  ELSE IF c.template = "carriers" THEN Carriers(c.x, c.y)
  ELSE IF c.template = "scopes" THEN ScopeProgram(c.n)
  ELSE IF c.template = "closures" THEN ClosureProgram(c.n)
  ELSE IF c.template = "solution" THEN Solution(c.n, c.x, c.y)
  ELSE IF c.template = "match" THEN MatchProgram(c.n, c.x)
  ELSE IF c.template = "map" THEN MapProgram(c.n, c.x)
  ELSE <<>>

\* ------------------------------------------- evaluator: the evaluation steps

\* The machine steps to m.
Becomes(m) ==
  /\ control' = m.control
  /\ kont' = m.kont
  /\ heap' = m.scopes
  /\ evalOut' = m.out
  /\ frames' = m.frames

\* The value v is handed to the callers k.
Hand(v, k) == Machine(ValueOf(v), k, heap, evalOut, frames)

\* The call c is made with the callers k waiting.
Make(c, k) == Machine(c, k, heap, evalOut, frames)

\* run() has evaluated nothing but the program yet.
NoRunner == [phase |-> "program", input |-> Undefined, partOne |-> Undefined, partTwo |-> Undefined, error |-> Undefined, scopes |-> <<>>]

\* The sections run() evaluates after the program, in this order.
RunnerPhases == <<"input", "part_one", "part_two">>

\* The position of a phase in that order (the program is before them all).
PhaseIndex(phase) == IF phase = "program" THEN 0 ELSE CHOOSE i \in 1..Len(RunnerPhases) : RunnerPhases[i] = phase

\* The next section to evaluate after `phase`: the first one in the order
\* that the source declares; "finished" when none is left.
NextPhase(scopes, phase) ==
  LET later == {i \in (PhaseIndex(phase) + 1)..Len(RunnerPhases) : Len(GetSection(scopes, Root, RunnerPhases[i])) > 0}
  IN IF later = {} THEN "finished" ELSE RunnerPhases[CHOOSE i \in later : \A j \in later : i <= j]

\* A scope for a part that hangs under the scope made last.
PartEnvironmentNested(scopes, input) ==
  Append(scopes, [parent |-> Len(scopes), variables |-> <<[name |-> "input", value |-> input, isMutable |-> FALSE]>>, sections |-> <<>>])

\* The scope a part is evaluated in: a child of the root scope in which
\* `input` is bound (when the source has an input section).
PartEnvironment(scopes, input) ==
  Append(scopes, [parent |-> Root,
                  variables |-> IF input = Undefined THEN <<>> ELSE <<[name |-> "input", value |-> input, isMutable |-> FALSE]>>,
                  sections |-> <<>>])

\* run(): once the program (or a section) is evaluated its result is kept
\* and the next declared section of input, part_one, part_two is evaluated,
\* input in a child of the root scope and each part in a scope of its own;
\* an Error ends the run.
RunSections ==
  /\ control.mode = "done"
  /\ picked.template = "solution"
  /\ runner.phase \notin {"finished", "failed"}
  /\ LET kept == IF runner.phase = "input" THEN [runner EXCEPT !.input = evalResult]
                 ELSE IF runner.phase = "part_one" THEN [runner EXCEPT !.partOne = evalResult]
                 ELSE IF runner.phase = "part_two" THEN [runner EXCEPT !.partTwo = evalResult]
                 ELSE runner
         next == NextPhase(heap, runner.phase)
     IN IF evalResult.kind = "Err"
        THEN /\ runner' = [runner EXCEPT !.phase = "failed", !.error = evalResult]
             /\ UNCHANGED <<control, kont, heap, frames>>
        ELSE IF next = "finished"
        THEN /\ runner' = [kept EXCEPT !.phase = "finished"]
             /\ UNCHANGED <<control, kont, heap, frames>>
        ELSE LET scopes == IF next = "input" THEN Append(heap, Environment(Root)) ELSE PartEnvironment(heap, kept.input)
                 start == StartLoop(GetSection(heap, Root, next)[1].body.statements, 1, Len(scopes), TRUE, <<StatementsFrame>>)
             IN /\ runner' = [kept EXCEPT !.phase = next, !.scopes = Append(@, Len(scopes))]
                /\ heap' = scopes
                /\ control' = start.control
                /\ kont' = start.kont
                /\ frames' = [frames EXCEPT !.depth = 1]
  /\ UNCHANGED <<program, picked, evalResult, evalOut>>

\* evalProgram enters evalStatements for the top-level statements in the
\* root environment: one frame is open.
EvalInit ==
  /\ picked \in Cases
  /\ program = ProgramOf(picked)
  /\ control = StartLoop(program, 1, Root, TRUE, <<StatementsFrame>>).control
  /\ kont = StartLoop(program, 1, Root, TRUE, <<StatementsFrame>>).kont
  /\ evalResult = NIL
  /\ heap = <<Environment(0)>>
  /\ evalOut = <<>>
  /\ frames = [depth |-> 1, maxDepth |-> 1, bodies |-> 0]
  /\ runner = NoRunner

\* The evaluator is not running.
EvalIdle ==
  /\ picked = NoCase
  /\ program = <<>>
  /\ control = [mode |-> "idle"]
  /\ kont = <<>>
  /\ evalResult = NIL
  /\ heap = <<>>
  /\ evalOut = <<>>
  /\ frames = [depth |-> 0, maxDepth |-> 0, bodies |-> 0]
  /\ runner = NoRunner

\* A caller of the given kinds is handed a value.
Handed(kinds) == control.mode = "value" /\ Len(kont) > 0 /\ Top(kont).kind \in kinds

\* evaluate(node, environment): literals, identifiers and function literals
\* give their value; an if evaluates its condition, a call its callee (or,
\* for && and ||, its left operand) first.
EvaluateNode ==
  /\ control.mode = "eval"
  /\ LET node == control.node
         env == control.env
     IN Becomes(
          CASE node.kind = "Integer" -> Hand(Integer(node.n), kont)
            [] node.kind = "Boolean" -> Hand(Boolean(node.b), kont)
            [] node.kind = "Str" -> Hand(String(node.s), kont)
            [] node.kind = "Placeholder" -> Hand(Placeholder, kont)
            [] node.kind = "Identifier" ->
                 LET v == GetVariable(heap, env, node.name)
                 IN IF v.kind # "Undefined" THEN Hand(v, kont)
                    ELSE IF node.name \in Builtins THEN Hand(BuiltinFunc(node.name, BuiltinParameters(node.name), Root), kont)
                    ELSE Hand(Err("Identifier not found: " \o node.name, node.source), kont)
            [] node.kind = "FunctionLiteral" ->
                 Machine(ValueOf(Func(node.parameters, node.body, Len(heap) + 1)), kont, Append(heap, Environment(env)), evalOut, frames)
            [] node.kind = "Section" ->
                 Machine(ValueOf(SectionObject(node.name, node.body)), kont, AddSection(heap, env, SectionObject(node.name, node.body)), evalOut, frames)
            [] node.kind = "ListExpression" ->
                 IF Len(node.elements) = 0 THEN Hand(List(<<>>), kont)
                 ELSE Make(EvalOf(node.elements[1], env, FALSE), Append(kont, ElementsFrame(node, env, <<>>)))
            [] node.kind = "MatchExpression" -> Make(EvalOf(node.subject, env, FALSE), Append(kont, MatchFrame(node, env, control.tail)))
            [] node.kind = "IfExpression" -> Make(EvalOf(node.condition, env, FALSE), Append(kont, IfFrame(node, env, control.tail)))
            [] node.kind = "CallExpression" ->
                 IF node.function.kind = "Identifier" /\ node.function.name \in {"&&", "||"}
                 THEN Make(EvalOf(node.arguments[1], env, FALSE), Append(kont, LeftFrame(node, env)))
                 ELSE Make(EvalOf(node.function, env, FALSE), Append(kont, CalleeFrame(node, env, control.tail))))
  /\ UNCHANGED <<program, picked, evalResult, runner>>

\* evalIfExpression once the condition is evaluated: the branch's statements
\* run in the same environment.
EvalIfExpression ==
  /\ Handed({"if"})
  /\ LET f == Top(kont)
         v == control.val
     IN IF IsCarrier(v) THEN Becomes(Hand(v, Pop(kont)))
        ELSE LET start == StartLoop((IF IsTruthy(v) THEN f.node.consequence ELSE f.node.alternative).statements, 1, f.env, f.tail, Pop(kont))
             IN Becomes(Make(start.control, start.kont))
  /\ UNCHANGED <<program, picked, evalResult, runner>>

\* The special cases of && and ||: the left operand decides whether the
\* right one is evaluated; the result is a Boolean.
EvalShortCircuit ==
  /\ Handed({"left", "right"})
  /\ LET f == Top(kont)
         v == control.val
     IN IF IsCarrier(v) THEN Becomes(Hand(v, Pop(kont)))
        ELSE IF f.kind = "right" THEN Becomes(Hand(Boolean(IsTruthy(v)), Pop(kont)))
        ELSE IF RightNeeded(f.node.function.name, v)
        THEN Becomes(Make(EvalOf(f.node.arguments[2], f.env, FALSE), Append(Pop(kont), RightFrame)))
        ELSE Becomes(Hand(Boolean(f.node.function.name = "||"), Pop(kont)))
  /\ UNCHANGED <<program, picked, evalResult, runner>>

\* evalCallExpression: after the callee, evalExpressions evaluates the
\* arguments left to right; a carrier stops it. Then the call is made.
EvalCallExpression ==
  /\ Handed({"callee", "args"})
  /\ LET f == Top(kont)
         v == control.val
         fn == IF f.kind = "callee" THEN v ELSE f.fn
         args == IF f.kind = "callee" THEN <<>> ELSE Append(f.args, v)
     IN IF IsCarrier(v) THEN Becomes(Hand(v, Pop(kont)))
        ELSE IF Len(args) < Len(f.node.arguments)
        THEN Becomes(Make(EvalOf(f.node.arguments[Len(args) + 1], f.env, FALSE), Append(Pop(kont), ArgsFrame(f.node, f.env, f.tail, fn, args))))
        ELSE Becomes(CallWith(fn, args, f.tail, Pop(kont), heap, evalOut, frames))
  /\ UNCHANGED <<program, picked, evalResult, runner>>

\* evalMatchExpression once the scrutinee or a guard is evaluated: the arms
\* are tried from the first (after a guard that failed, from the next); a
\* guard that holds selects its arm's body.
EvalMatchExpression ==
  /\ Handed({"match", "guard"})
  /\ LET f == Top(kont)
         v == control.val
     IN IF IsCarrier(v) THEN Becomes(Hand(v, Pop(kont)))
        ELSE IF f.kind = "match" THEN Becomes(TryCases(f.node, v, 1, f.env, f.tail, Pop(kont), heap, evalOut, frames))
        ELSE IF IsTruthy(v)
        THEN LET start == StartLoop(f.node.cases[f.i].consequence.statements, 1, f.caseEnv, f.tail, Pop(kont))
             IN Becomes(Make(start.control, start.kont))
        ELSE Becomes(TryCases(f.node, f.subject, f.i + 1, f.env, f.tail, Pop(kont), heap, evalOut, frames))
  /\ UNCHANGED <<program, picked, evalResult, runner>>

\* A list literal's elements are evaluated left to right; a carrier stops it.
EvalListExpression ==
  /\ Handed({"elements"})
  /\ LET f == Top(kont)
         v == control.val
         items == Append(f.items, v)
     IN IF IsCarrier(v) THEN Becomes(Hand(v, Pop(kont)))
        ELSE IF Len(items) < Len(f.node.elements)
        THEN Becomes(Make(EvalOf(f.node.elements[Len(items) + 1], f.env, FALSE), Append(Pop(kont), ElementsFrame(f.node, f.env, items))))
        ELSE Becomes(Hand(List(items), Pop(kont)))
  /\ UNCHANGED <<program, picked, evalResult, runner>>

\* fold's callback returned: a Break ends the fold with its value, an Error
\* propagates, any other value is the accumulator for the next element.
EvalFold ==
  /\ Handed({"fold"})
  /\ LET f == Top(kont)
         v == control.val
     IN IF v.kind = "BreakValue" THEN Becomes(Hand(v.value, Pop(kont)))
        ELSE IF IsCarrier(v) THEN Becomes(Hand(v, Pop(kont)))
        ELSE Becomes(FoldStep(f.folder, v, f.items, f.i + 1, Pop(kont), heap, evalOut, frames))
  /\ UNCHANGED <<program, picked, evalResult, runner>>

\* map once the callback's value for element i arrives: it is the i-th
\* element of the result; a carrier stops the map.
EvalMap ==
  /\ Handed({"map"})
  /\ LET f == Top(kont)
         v == control.val
     IN IF IsCarrier(v) THEN Becomes(Hand(v, Pop(kont)))
        ELSE Becomes(MapStep(f.mapper, Append(f.mapped, v), f.items, f.i + 1, Pop(kont), heap, evalOut, frames))
  /\ UNCHANGED <<program, picked, evalResult, runner>>

\* A statement's value arrives: a return or a break wraps it unless it is a
\* carrier already, a let or an assignment binds it.
EvalStatementDone ==
  /\ Handed({"return", "break", "bind"})
  /\ LET f == Top(kont)
         v == control.val
     IN IF f.kind = "return"
        THEN Becomes(Hand(IF IsCarrier(v) THEN v ELSE ReturnValue(v), Pop(kont)))
        ELSE IF f.kind = "break"
        THEN Becomes(Hand(IF IsCarrier(v) THEN v ELSE BreakValue(v), Pop(kont)))
        ELSE LET b == Bind(f.statement, f.env, v, heap)
             IN Becomes(Machine(ValueOf(b.val), Pop(kont), b.scopes, evalOut, frames))
  /\ UNCHANGED <<program, picked, evalResult, runner>>

\* evalStatementsLoop: a carrier or the last statement's value ends the
\* loop, otherwise the next statement is evaluated.
EvalStatementsLoop ==
  /\ Handed({"evalStatementsLoop"})
  /\ LET f == Top(kont)
         v == control.val
     IN IF IsCarrier(v) \/ f.i = Len(f.statements) THEN Becomes(Hand(v, Pop(kont)))
        ELSE LET start == StartLoop(f.statements, f.i + 1, f.env, f.tail, Pop(kont))
             IN Becomes(Make(start.control, start.kont))
  /\ UNCHANGED <<program, picked, evalResult, runner>>

\* evalStatements' trampoline: while (result instanceof O.TailCallFunc)
\*   result = evalStatementsLoop(result.body.statements, result.environment)
EvalStatementsTrampoline ==
  /\ Handed({"evalStatements"})
  /\ IsTailCallFunc(control.val)
  /\ LET start == StartLoop(control.val.body.statements, 1, control.val.environment, TRUE, kont)
     IN Becomes(Machine(start.control, start.kont, heap, evalOut, [frames EXCEPT !.bodies = @ + 1]))
  /\ UNCHANGED <<program, picked, evalResult, runner>>

\* evalStatements: return result
EvalStatementsReturn ==
  /\ Handed({"evalStatements"})
  /\ ~IsTailCallFunc(control.val)
  /\ Becomes(Machine(control, Pop(kont), heap, evalOut, [frames EXCEPT !.depth = @ - 1]))
  /\ UNCHANGED <<program, picked, evalResult, runner>>

\* applyFunction: a Return is absorbed by the function application.
ApplyFunctionReturn ==
  /\ Handed({"applyFunction"})
  /\ Becomes(Hand(IF control.val.kind = "ReturnValue" THEN control.val.value ELSE control.val, Pop(kont)))
  /\ UNCHANGED <<program, picked, evalResult, runner>>

\* evalProgram returns the result of the run, absorbing a top-level Return.
EvalProgramReturn ==
  /\ control.mode = "value"
  /\ kont = <<>>
  /\ evalResult' = IF control.val.kind = "ReturnValue" THEN control.val.value ELSE control.val
  /\ control' = [mode |-> "done"]
  /\ UNCHANGED <<program, picked, kont, heap, evalOut, frames, runner>>

\* ------------------------------------------------ io.ts used by a client

VARIABLES
  ioLog            \* the last call made to the io module and what the client saw (history)

ioVars == <<ioLog>>

\* The CLI's variables other than the io module's state and the clock.
cliRest == <<pc, outputMode, isTestRun, includeSlow, filename, source, result, testCases, thrown, stderr, exitCode, usage, evaluated, ran, replLines>>

\* No call was made.
IoIdle == ioLog = [op |-> "none", args |-> <<>>, capturing |-> FALSE, emitted |-> <<>>, returned |-> <<>>, calls |-> 0]

\* The argument lists output() is called with.
ArgLists == {<<>>, <<"a">>, <<"b", "c">>}

\* A client calls enableConsoleCapture().
IoEnableConsoleCapture ==
  /\ ioLog.calls < MaxIoCalls
  /\ EnableConsoleCapture
  /\ ioLog' = [op |-> "enableConsoleCapture", args |-> <<>>, capturing |-> TRUE, emitted |-> <<>>, returned |-> <<>>, calls |-> ioLog.calls + 1]
  /\ UNCHANGED <<stdout, now, cliRest>>

\* A client calls disableConsoleCapture() and receives the entries.
IoDisableConsoleCapture ==
  /\ ioLog.calls < MaxIoCalls
  /\ consoleBuffer' = DisableConsoleCapture(consoleBuffer).buffer
  /\ ioLog' = [op |-> "disableConsoleCapture", args |-> <<>>, capturing |-> FALSE,
               emitted |-> IF ioLog.capturing THEN ioLog.emitted ELSE <<>>,
               returned |-> DisableConsoleCapture(consoleBuffer).entries, calls |-> ioLog.calls + 1]
  /\ UNCHANGED <<captureStartTime, stdout, now, cliRest>>

\* A client (the puts built-in) calls output(args).
IoOutput ==
  /\ ioLog.calls < MaxIoCalls
  /\ \E args \in ArgLists :
       LET con == Output(args, Console(consoleBuffer, stdout), captureStartTime, now)
       IN /\ consoleBuffer' = con.buffer
          /\ stdout' = con.out
          /\ ioLog' = [ioLog EXCEPT !.op = "output", !.args = args, !.calls = @ + 1,
                                    !.emitted = IF ioLog.capturing /\ Len(args) > 0 THEN Append(@, Join(args)) ELSE @]
  /\ UNCHANGED <<captureStartTime, now, cliRest>>

\* Date.now() advances between calls.
IoTick ==
  /\ now < MaxClock
  /\ now' = now + 1
  /\ UNCHANGED <<consoleBuffer, captureStartTime, stdout, cliRest, ioLog>>

\* ------------------------------------------- collections of the object system

VARIABLES
  coll             \* every collection made so far, and what the last operation did

collVars == <<coll>>

\* No collection was made.
CollIdle == coll = [kind |-> "none", lists |-> <<>>, nodes |-> <<>>, snap |-> <<>>, owners |-> 0, before |-> <<>>,
                    last |-> [op |-> "none", receiver |-> 0, transient |-> FALSE, outcome |-> "none", made |-> 0], ops |-> 0]

CollectionKinds == {"List", "Set", "Dict"}

\* The values put into collections.
CollValues == {1, 2}

\* The items of a collection with v put in: a List appends, a Set adds when
\* absent, a Dict associates the key v with a new value.
Insert(kind, items, v) ==
  IF kind = "List" THEN Append(items, v)
  ELSE IF kind = "Set" THEN (IF \E i \in 1..Len(items) : items[i] = v THEN items ELSE Append(items, v))
  ELSE IF \E i \in 1..Len(items) : items[i][1] = v
       THEN [i \in 1..Len(items) |-> IF items[i][1] = v THEN <<v, Len(items) + 10>> ELSE items[i]]
       ELSE Append(items, <<v, Len(items) + 10>>)

\* An immutability test that takes every collection for persistent.
IsImmutableAlways(list) == TRUE

\* isImmutable(): !this.items.__ownerID
IsImmutable(list) == list.owner = 0

\* The items a collection holds now.
ItemsOf(c, r) == c.nodes[c.lists[r].node].items

\* A node may be edited in place by the transient collection that made it.
IsOwnedBy(node, owner) == node.owner = owner

\* What the last operation did.
Did(op, r, c, outcome, made) ==
  [op |-> op, receiver |-> r, transient |-> c.lists[r].owner # 0, outcome |-> outcome, made |-> made]

\* push(value, collection): requires an immutable receiver and returns a new
\* persistent collection that shares nothing mutable with it.
Push(c, r, v) ==
  IF ~IsImmutable(c.lists[r]) THEN [c EXCEPT !.last = Did("push", r, c, "error", 0), !.ops = @ + 1]
  ELSE [c EXCEPT !.nodes = Append(@, [owner |-> 0, items |-> Insert(c.kind, ItemsOf(c, r), v)]),
                 !.lists = Append(@, [owner |-> 0, node |-> Len(c.nodes) + 1]),
                 !.snap = Append(@, Insert(c.kind, ItemsOf(c, r), v)),
                 !.last = Did("push", r, c, "ok", Len(c.lists) + 1),
                 !.ops = @ + 1]

\* push!(value, collection): requires a mutable receiver, which it changes in
\* place: its node is edited when this collection made it, else copied first.
PushBang(c, r, v) ==
  IF IsImmutable(c.lists[r]) THEN [c EXCEPT !.last = Did("push!", r, c, "error", 0), !.ops = @ + 1]
  ELSE LET list == c.lists[r]
           node == c.nodes[list.node]
       IN IF IsOwnedBy(node, list.owner)
          THEN [c EXCEPT !.nodes[list.node].items = Insert(c.kind, @, v),
                         !.last = Did("push!", r, c, "ok", r), !.ops = @ + 1]
          ELSE [c EXCEPT !.nodes = Append(@, [owner |-> list.owner, items |-> Insert(c.kind, node.items, v)]),
                         !.lists[r].node = Len(c.nodes) + 1,
                         !.last = Did("push!", r, c, "ok", r), !.ops = @ + 1]

\* asMutable(): new List(this.items.asMutable()): a collection that is
\* mutable already is returned as it is, otherwise a new collection with an
\* owner of its own over the same node.
AsMutable(c, r) ==
  IF c.lists[r].owner # 0 THEN [c EXCEPT !.last = Did("asMutable", r, c, "ok", r), !.ops = @ + 1]
  ELSE [c EXCEPT !.lists = Append(@, [owner |-> c.owners + 1, node |-> c.lists[r].node]),
                 !.snap = Append(@, <<>>),
                 !.owners = @ + 1,
                 !.last = Did("asMutable", r, c, "ok", Len(c.lists) + 1),
                 !.ops = @ + 1]

\* asImmutable(): new List(this.items.asImmutable()): the collection gives up
\* its owner and is persistent from now on.
AsImmutable(c, r) ==
  [c EXCEPT !.lists[r].owner = 0,
            !.snap[r] = IF c.lists[r].owner = 0 THEN @ ELSE ItemsOf(c, r),
            !.last = Did("asImmutable", r, c, "ok", r),
            !.ops = @ + 1]

\* let c1 = a persistent collection of one of the kinds, empty or not.
CollInit ==
  \E kind \in CollectionKinds, v \in {0} \cup CollValues :
    LET items == IF v = 0 THEN <<>> ELSE Insert(kind, <<>>, v)
    IN coll = [kind |-> kind, lists |-> <<[owner |-> 0, node |-> 1]>>, nodes |-> <<[owner |-> 0, items |-> items]>>,
               snap |-> <<items>>, owners |-> 0, before |-> items,
               last |-> [op |-> "none", receiver |-> 0, transient |-> FALSE, outcome |-> "none", made |-> 0], ops |-> 0]

CollPush == coll.ops < MaxCollOps /\ \E r \in 1..Len(coll.lists), v \in CollValues : coll' = Push(coll, r, v)

CollPushBang == coll.ops < MaxCollOps /\ \E r \in 1..Len(coll.lists), v \in CollValues : coll' = PushBang(coll, r, v)

CollAsMutable == coll.ops < MaxCollOps /\ \E r \in 1..Len(coll.lists) : coll' = AsMutable(coll, r)

CollAsImmutable == coll.ops < MaxCollOps /\ \E r \in 1..Len(coll.lists) : coll' = AsImmutable(coll, r)

\* ------------------------------------------------------- io.ts: input(path)

VARIABLES
  disk,            \* the files and the environment input() works on
  inputLog         \* the last input() call and what it did

inputVars == <<disk, inputLog>>

\* No input() call was made.
NoCall == [calls |-> 0, path |-> [scheme |-> "", host |-> "", pathname |-> <<>>], net |-> [exitCode |-> 0, stdout |-> <<>>],
           outcome |-> "none", value |-> <<>>, message |-> "", fetches |-> <<>>]

InputIdle == disk = [files |-> {}, token |-> [set |-> FALSE, value |-> ""]] /\ inputLog = NoCall

\* Texts are sequences of characters: a letter, a newline, a space.
Whitespace == {"nl", "sp"}

RECURSIVE TextsUpTo(_)
TextsUpTo(n) ==
  IF n = 0 THEN {<<>>}
  ELSE TextsUpTo(n - 1) \cup {Append(t, c) : t \in {u \in TextsUpTo(n - 1) : Len(u) = n - 1}, c \in {"b", "nl"}}

\* The paths given to input(): scheme://host/pathname, or a local path.
AocPath(year, day) == [scheme |-> "aoc", host |-> year, pathname |-> <<"/">> \o day]

HttpPath == [scheme |-> "https", host |-> "example.com", pathname |-> <<"/", "i">>]

LocalPath(name) == [scheme |-> "", host |-> "", pathname |-> <<name>>]

Paths ==
  {AocPath("2022", day) : day \in {<<"1">>, <<"0", "1">>, <<"1", "2">>}} \cup {HttpPath, LocalPath("in.txt"), LocalPath("none.txt")}

NoUrl == [protocol |-> "null", host |-> "", pathname |-> <<>>]

\* parseUrl: new URL(path), or null when the path has no scheme.
ParseUrl(path) ==
  IF path.scheme = "" THEN NoUrl
  ELSE [protocol |-> path.scheme \o ":", host |-> path.host, pathname |-> path.pathname]

\* A padding that leaves the text as it is.
PadNone(text, n, c) == text

RECURSIVE PadStart(_, _, _)
\* day.padStart(2, '0')
PadStart(text, n, c) == IF Len(text) >= n THEN text ELSE PadStart(<<c>> \o text, n, c)

RECURSIVE TrimEnd(_)
\* .trimEnd()
TrimEnd(text) ==
  IF Len(text) > 0 /\ text[Len(text)] \in Whitespace THEN TrimEnd(SubSeq(text, 1, Len(text) - 1)) ELSE text

\* pathname.substring(1)
Substring1(text) == IF Len(text) = 0 THEN text ELSE Tail(text)

\* readFileSync(filename): the content, or a throw when there is no such file.
IsReadable(files, name) == \E f \in files : f.name = name

ReadFileSync(files, name) == (CHOOSE f \in files : f.name = name).content

\* writeFileSync(filename, content)
WriteFileSync(files, name, content) == {f \in files : f.name # name} \cup {[name |-> name, content |-> content]}

\* What a call does: it returns a string or throws an Error; the files after
\* it and the fetches it made.
Returned(value, files, fetches) == [outcome |-> "returned", value |-> value, message |-> "", files |-> files, fetches |-> fetches]

Thrown(message, files, fetches) == [outcome |-> "thrown", value |-> <<>>, message |-> message, files |-> files, fetches |-> fetches]

\* Bun.spawnSync(['curl', ...])
Curl(cookie, url) == [cookie |-> cookie, url |-> url]

\* A token test that takes every environment to hold a token.
HasTokenAlways(token) == TRUE

\* if (!token) throw: the variable is set and not empty
HasToken(token) == token.set /\ token.value # ""

\* aoc${year}_day${day.padStart(2, '0')}.input
CacheFile(url) == <<"aoc", url.host, "_day">> \o PadStart(Substring1(url.pathname), 2, "0") \o <<".input">>

\* readAoC: the cache file when it is readable; otherwise, with a session
\* token, the puzzle input is fetched, trimmed at its end, written to the
\* cache file and returned.
ReadAoC(url, d, net) ==
  LET year == url.host
      day == Substring1(url.pathname)
      cacheFile == CacheFile(url)
      fetch == Curl(d.token.value, <<"https://adventofcode.com/", year, "/day/">> \o day \o <<"/input">>)
  IN IF IsReadable(d.files, cacheFile) THEN Returned(ReadFileSync(d.files, cacheFile), d.files, <<>>)
     ELSE IF ~HasToken(d.token)
     THEN Thrown("Unable to read AOC input: missing session token within SANTA_CLI_SESSION_TOKEN environment variable", d.files, <<>>)
     ELSE IF net.exitCode # 0 THEN Thrown("Unable to read AOC input", d.files, <<fetch>>)
     ELSE Returned(TrimEnd(net.stdout), WriteFileSync(d.files, cacheFile, TrimEnd(net.stdout)), <<fetch>>)

\* readUrl: curl -sfL path
ReadUrl(path, d, net) ==
  IF net.exitCode # 0 THEN Thrown("Unable to read HTTP input", d.files, <<Curl("", path)>>)
  ELSE Returned(net.stdout, d.files, <<Curl("", path)>>)

\* input(path)
Input(path, d, net) ==
  LET url == ParseUrl(path)
  IN IF url = NoUrl
     THEN IF IsReadable(d.files, path.pathname) THEN Returned(ReadFileSync(d.files, path.pathname), d.files, <<>>)
          ELSE Thrown("Unable to read path", d.files, <<>>)
     ELSE IF url.protocol = "aoc:" THEN ReadAoC(url, d, net)
     ELSE ReadUrl(path, d, net)

\* What a fetch gives: curl's exit code and its stdout.
NetOutcomes == {[exitCode |-> 0, stdout |-> t] : t \in TextsUpTo(MaxContent)} \cup {[exitCode |-> 22, stdout |-> <<>>]}

\* The session token of the environment: unset, empty or set.
Tokens == {[set |-> FALSE, value |-> ""], [set |-> TRUE, value |-> ""], [set |-> TRUE, value |-> "tok"]}

\* The files there may be before the first call: a cache file and a local file.
InitialFiles ==
  {cached \cup local :
     cached \in {{}} \cup {{[name |-> <<"aoc", "2022", "_day", "0", "1", ".input">>, content |-> t]} : t \in {<<"a">>, <<"a", "nl">>}},
     local \in {{}, {[name |-> <<"in.txt">>, content |-> <<"a", "nl">>]}}}

InputInit ==
  /\ disk \in {[files |-> files, token |-> token] : files \in InitialFiles, token \in Tokens}
  /\ inputLog = NoCall

\* A client calls input(path); the network answers as it likes.
IoInput ==
  /\ inputLog.calls < MaxInputCalls
  /\ \E path \in Paths, net \in NetOutcomes :
       LET r == Input(path, disk, net)
       IN /\ disk' = [disk EXCEPT !.files = r.files]
          /\ inputLog' = [calls |-> inputLog.calls + 1, path |-> path, net |-> net, outcome |-> r.outcome,
                          value |-> r.value, message |-> r.message, fetches |-> r.fetches]

\* --------------------------------------------------------- specifications

vars == <<cliVars, evalVars, ioVars, collVars, inputVars>>

notCli == <<evalVars, ioVars, collVars, inputVars>>

notEval == <<cliVars, ioVars, collVars, inputVars>>

notIo == <<evalVars, collVars, inputVars>>

notColl == <<cliVars, evalVars, ioVars, inputVars>>

notInput == <<cliVars, evalVars, ioVars, collVars>>

\* The CLI process.
Init == CliInit /\ EvalIdle /\ IoIdle /\ CollIdle /\ InputIdle

Next ==
  \/ CheckHelp /\ UNCHANGED notCli
  \/ ParseOutputMode /\ UNCHANGED notCli
  \/ CheckVersion /\ UNCHANGED notCli
  \/ CheckRepl /\ UNCHANGED notCli
  \/ ReplLine /\ UNCHANGED notCli
  \/ ReplClose /\ UNCHANGED notCli
  \/ SelectSource /\ UNCHANGED notCli
  \/ RunMode /\ UNCHANGED notCli
  \/ TestMode /\ UNCHANGED notCli
  \/ CatchError /\ UNCHANGED notCli

Spec == Init /\ [][Next]_vars

\* The evaluator on one program.
InitEval == CliInit /\ EvalInit /\ IoIdle /\ CollIdle /\ InputIdle

NextEval ==
  \/ EvaluateNode /\ UNCHANGED notEval
  \/ EvalIfExpression /\ UNCHANGED notEval
  \/ EvalShortCircuit /\ UNCHANGED notEval
  \/ EvalCallExpression /\ UNCHANGED notEval
  \/ EvalListExpression /\ UNCHANGED notEval
  \/ EvalMatchExpression /\ UNCHANGED notEval
  \/ EvalFold /\ UNCHANGED notEval
  \/ EvalMap /\ UNCHANGED notEval
  \/ EvalStatementDone /\ UNCHANGED notEval
  \/ EvalStatementsLoop /\ UNCHANGED notEval
  \/ EvalStatementsTrampoline /\ UNCHANGED notEval
  \/ EvalStatementsReturn /\ UNCHANGED notEval
  \/ ApplyFunctionReturn /\ UNCHANGED notEval
  \/ EvalProgramReturn /\ UNCHANGED notEval
  \/ RunSections /\ UNCHANGED notEval

SpecEval == InitEval /\ [][NextEval]_vars

\* The io module under any sequence of calls.
NextIo ==
  \/ IoEnableConsoleCapture /\ UNCHANGED notIo
  \/ IoDisableConsoleCapture /\ UNCHANGED notIo
  \/ IoOutput /\ UNCHANGED notIo
  \/ IoTick /\ UNCHANGED notIo

SpecIo == Init /\ [][NextIo]_vars

\* Collections under any sequence of operations.
InitColl == CliInit /\ EvalIdle /\ IoIdle /\ CollInit /\ InputIdle

NextColl ==
  \/ CollPush /\ UNCHANGED notColl
  \/ CollPushBang /\ UNCHANGED notColl
  \/ CollAsMutable /\ UNCHANGED notColl
  \/ CollAsImmutable /\ UNCHANGED notColl

SpecColl == InitColl /\ [][NextColl]_vars

\* input() called by a client.
InitInput == CliInit /\ EvalIdle /\ IoIdle /\ CollIdle /\ InputInit

NextInput ==
  \/ IoInput /\ UNCHANGED notInput

SpecInput == InitInput /\ [][NextInput]_vars

\* ------------------------------------------------- properties of the CLI

\* Test mode ran to the end: runTests() returned and the process exited.
TestsDone == pc = "exit" /\ ran /\ isTestRun /\ thrown = NoError

\* Some part of a test that was not skipped has hasPassed = false.
SomeTestFailed(tcs) ==
  \E i \in 1..Len(tcs) : ~tcs[i].skipped /\ (tcs[i].partOne = "fail" \/ tcs[i].partTwo = "fail")

\* The messages of the output() calls a test's units make.
TestMessages(i) == {Join(<<u, ToString(i)>>) : u \in {"test", "part_one", "part_two"}}

\* Every console message that reached stdout: as a printed line, as an entry
\* of a JSON document's console array, or as a JSONL console patch.
SeenMessages ==
  {stdout[j].text : j \in {k \in 1..Len(stdout) : stdout[k].kind = "puts"}}
  \cup UNION {{stdout[j].doc.console[e].message : e \in 1..Len(stdout[j].doc.console)} : j \in {k \in 1..Len(stdout) : stdout[k].kind = "doc"}}
  \cup UNION {{stdout[j].patches[e].val.s : e \in {f \in 1..Len(stdout[j].patches) : stdout[j].patches[f].path = "/console/-"}} : j \in {k \in 1..Len(stdout) : stdout[k].kind = "patches"}}
  \cup {consoleBuffer.entries[e].message : e \in 1..Len(consoleBuffer.entries)}

\* C1: runTests returns exactly one result per test section, in declaration
\* order, for either value of includeSlow; each result's slow flag is the
\* section's @slow annotation and its skipped flag is (slow and not
\* includeSlow). So with includeSlow nothing is skipped, and a test that is
\* not slow is never skipped.
C1_OneResultPerTest ==
  TestsDone =>
    /\ Len(testCases) = Len(source.tests)
    /\ \A i \in 1..Len(testCases) :
         /\ testCases[i].slow = source.tests[i].slow
         /\ testCases[i].skipped = (source.tests[i].slow /\ ~includeSlow)
         /\ (includeSlow => ~testCases[i].skipped)
         /\ (~source.tests[i].slow => ~testCases[i].skipped)

\* C1 witness: slow tests were requested and two tests ran, the first not
\* slow and the second slow; neither is skipped.
C1_Witness ==
  /\ TestsDone
  /\ includeSlow
  /\ Len(testCases) = 2
  /\ ~testCases[1].slow /\ testCases[2].slow
  /\ ~testCases[2].skipped

\* What C2 says of a skipped test: none of its units was evaluated, none of
\* its messages was output, its result has no parts, and the JSON document
\* reports it as skipped with no part fields.
SkippedIsUntouched(i) ==
  /\ \A e \in 1..Len(evaluated) : evaluated[e].idx # i
  /\ TestMessages(i) \cap SeenMessages = {}
  /\ testCases[i].partOne = "absent" /\ testCases[i].partTwo = "absent"
  /\ outputMode = "json" =>
       LET tc == stdout[Len(stdout)].doc.tests[i]
       IN tc.status = "skipped" /\ tc.part_one = "absent" /\ tc.part_two = "absent" /\ tc.index = i

C3_TestExitCode ==
  TestsDone =>
    /\ exitCode = (IF SomeTestFailed(testCases) THEN 3 ELSE 0)
    /\ \A mode \in {"text", "json", "jsonl"} : TestExitCode(mode, testCases) = exitCode

\* C3 witness: JSON mode, a skipped test and a test whose part two alone
\* fails; exit 3.
C3_Witness ==
  /\ TestsDone
  /\ outputMode = "json"
  /\ Len(testCases) = 2
  /\ testCases[1].skipped
  /\ testCases[2].partOne = "pass" /\ testCases[2].partTwo = "fail"
  /\ exitCode = 3

\* C4: the process exits 2 exactly when run() or runTests() threw (a lex,
\* parse or runtime error), in run and test mode and in every output mode;
\* after an error it exits neither 0 nor 3.
C4_ErrorExitCode ==
  pc = "exit" => (exitCode = 2 <=> (ran /\ source.fault # "none"))

\* C4 witness: test mode with JSONL output, a runtime error, exit 2.
C4_Witness ==
  /\ pc = "exit"
  /\ isTestRun /\ outputMode = "jsonl"
  /\ thrown.message = "runtime"
  /\ exitCode = 2

\* The last line written to stdout.
LastLine == stdout[Len(stdout)]

\* The 1-indexed location of an error.
OneIndexed(err) == [line |-> err.line + 1, column |-> err.column + 1]

\* C14: the core error carries a zero-indexed (line, column); the JSON error
\* document and the JSONL '/error' patch both report line + 1 and column + 1
\* with an empty stack, so both modes report the same 1-indexed location for
\* the same error, and an error on the n-th source line is reported at line n.
C14_ErrorLocation ==
  (pc = "exit" /\ thrown # NoError) =>
    /\ thrown.line = source.at.line /\ thrown.column = source.at.column
    /\ outputMode = "json" =>
         /\ LastLine.kind = "doc" /\ LastLine.doc.type = "error"
         /\ LastLine.doc.location = OneIndexed(thrown)
         /\ LastLine.doc.stack = <<>>
    /\ outputMode = "jsonl" =>
         /\ LastLine.kind = "patches" /\ LastLine.patches[2].path = "/error"
         /\ LastLine.patches[2].val.location = OneIndexed(thrown)
         /\ LastLine.patches[2].val.stack = <<>>

\* C14 witness: an error on the fourth source line, reported in JSON mode
\* with line 4.
C14_Witness ==
  /\ pc = "exit"
  /\ outputMode = "json"
  /\ source.at.line = 3
  /\ LastLine.doc.location = [line |-> 4, column |-> 3]

\* Run mode ran to the end: run() returned and the process exited.
RunDone == pc = "exit" /\ ran /\ ~isTestRun /\ thrown = NoError

\* C17: run() returns a solution result when the source declares part_one
\* or part_two, with partOne present iff part_one is declared and partTwo
\* present iff part_two is declared, and a script result otherwise;
\* formatRunJson gives type 'solution' with the key part_one present iff
\* result.partOne is and part_two present iff result.partTwo is, and type
\* 'script' (with a value) exactly for script results.
C17_SolutionOrScript ==
  RunDone =>
    /\ result.kind = (IF source.part_one \/ source.part_two THEN "solution" ELSE "script")
    /\ result.kind = "solution" => (result.partOne = source.part_one /\ result.partTwo = source.part_two)
    /\ outputMode = "json" =>
         /\ LastLine.kind = "doc"
         /\ LastLine.doc.type = result.kind
         /\ LastLine.doc.part_one # "absent" <=> (result.kind = "solution" /\ result.partOne)
         /\ LastLine.doc.part_two # "absent" <=> (result.kind = "solution" /\ result.partTwo)
         /\ LastLine.doc.value # "absent" <=> result.kind = "script"

\* C17 witness: a source with part_one only, in JSON mode: a solution
\* document with part_one and without part_two.
C17_Witness ==
  /\ RunDone
  /\ outputMode = "json"
  /\ source.part_one /\ ~source.part_two
  /\ LastLine.doc.type = "solution"
  /\ LastLine.doc.part_one = "complete"
  /\ LastLine.doc.part_two = "absent"

\* No source was run and no output() call was made.
NothingRun == ~ran /\ evaluated = <<>> /\ SeenMessages = {}

Done == control.mode = "done"

\* What a top-level name is bound to.
RootValue(name) == GetVariable(heap, Root, name)

Templated(templates) == picked.template \in templates

\* 0 + 1 + ... + n, by the nested recursion the recursive programs spell out.
RECURSIVE SumTo(_)
SumTo(n) == IF n = 0 THEN 0 ELSE n + SumTo(n - 1)

\* The evalStatements frames on the evaluator's stack.
OpenFrames == Cardinality({i \in 1..Len(kont) : kont[i].kind = "evalStatements"})

\* C6: a tail-call request never reaches user code: no variable is bound to
\* one, no callee or argument of a call is one, evalStatements never returns
\* one to applyFunction or to evalProgram, and the result of the run is none.
C6_TailCallInternal ==
  /\ \A e \in 1..Len(heap) : \A i \in 1..Len(heap[e].variables) : heap[e].variables[i].value.kind # "TailCallFunc"
  /\ \A i \in 1..Len(kont) :
       kont[i].kind = "args" => (kont[i].fn.kind # "TailCallFunc" /\ \A j \in 1..Len(kont[i].args) : kont[i].args[j].kind # "TailCallFunc")
  /\ (control.mode = "value" /\ (kont = <<>> \/ Top(kont).kind = "applyFunction")) => control.val.kind # "TailCallFunc"
  /\ Done => evalResult.kind # "TailCallFunc"

\* C6 witness: the tail-call request of `return id(7)` in the value of a let
\* reaches the let, which is inside a function called from a let.
C6_Witness ==
  /\ Templated({"letReturn"})
  /\ Handed({"bind"})
  /\ control.val.kind = "TailCallFunc"
  /\ frames.depth = 2

\* The evalStatements frames a tail-recursive program needs: the top-level
\* one, and one for the function called from `let total = ...`.
TailDepth == IF Templated({"sumTail"}) THEN 1 ELSE 2

\* C7: a self-recursive (sumTail, sumReturn) or mutually recursive (evenOdd)
\* function whose recursive call is in tail position runs at a depth of
\* nested evalStatements frames that does not grow with the number of
\* recursive calls, and returns the value of the nested evaluation; the
\* function recursing in non-tail position (sumNested) opens a frame per call.
C7_ConstantDepth ==
  /\ ~Done => OpenFrames = frames.depth
  /\ Templated({"sumTail", "sumReturn", "evenOdd"}) => (frames.maxDepth <= TailDepth /\ frames.bodies <= picked.n + 1)
  /\ Done =>
       /\ Templated({"sumTail", "sumReturn"}) => (evalResult = Integer(SumTo(picked.n)) /\ frames.bodies = picked.n + 1)
       /\ Templated({"evenOdd"}) => (evalResult = Boolean(picked.n % 2 = 0) /\ frames.bodies = picked.n + 1)
       /\ Templated({"sumNested"}) => (evalResult = Integer(SumTo(picked.n)) /\ frames.maxDepth = picked.n + 2)

\* C7 witness: even(N) for the deepest N went through N + 1 bodies of even
\* and odd in two frames.
C7_Witness ==
  /\ Done
  /\ Templated({"evenOdd"})
  /\ picked.n = MaxDepth
  /\ frames.bodies = MaxDepth + 1
  /\ frames.maxDepth = 2

\* The left operands that are truthy: true, 2 and "s".
LeftIsTruthy == picked.x \in {1, 4, 6}

\* The right operand is required: && with a truthy left, || with a falsy one.
RightRequired == IF Templated({"and"}) THEN LeftIsTruthy ELSE ~LeftIsTruthy

\* C8: `a && b` evaluates b iff a is truthy and `a || b` evaluates b iff a is
\* falsy; a right operand that is not evaluated has no effect at all: no
\* puts event, no assignment, its body is never entered.
C8_ShortCircuit ==
  Templated({"and", "or"}) =>
    /\ ~RightRequired => (evalOut = <<>> /\ frames.bodies = 0 /\ RootValue("hits") \in {Undefined, Integer(0)})
    /\ Done =>
         /\ RootValue("hits") = Integer(IF RightRequired THEN 1 ELSE 0)
         /\ evalOut = (IF RightRequired THEN <<"x">> ELSE <<>>)
         /\ evalResult = Boolean(IF Templated({"and"}) THEN LeftIsTruthy /\ picked.y # 0 ELSE LeftIsTruthy \/ picked.y # 0)

\* C8 witness: `false && touch(1)` ended with no puts event and hits = 0.
C8_Witness ==
  /\ Done
  /\ Templated({"and"})
  /\ picked.x = 2 /\ picked.y = 1
  /\ evalOut = <<>>
  /\ RootValue("hits") = Integer(0)
  /\ evalResult = Boolean(FALSE)

ErrorHanded == control.mode = "value" /\ control.val.kind = "Err"

Repeated(m, times) == [i \in 1..times |-> m]

\* A Return or a Break is handed to a block.
CarrierHanded == Handed({"evalStatementsLoop"}) /\ control.val.kind \in {"ReturnValue", "BreakValue"}

\* C11: a Return(v) or Break(v) handed to a block ends it: the block hands
\* the same carrier to its caller and nothing else changes, so no later
\* statement runs, through nested blocks; the function application absorbs
\* the Return (the caller gets 10 and goes on with its next statement), and
\* the fold absorbs the Break (it returns 100 and visits no further element).
C11_CarriersEndBlocks ==
  /\ [](Templated({"carriers"}) =>
          /\ \A i \in 1..Len(evalOut) : evalOut[i] # "late"
          /\ Done =>
               /\ RootValue("r") = Integer(IF picked.x = 1 THEN 10 ELSE 20)
               /\ RootValue("seen") = Integer(IF picked.y = 0 THEN MaxItems ELSE picked.y)
               /\ RootValue("g") = Integer(IF picked.y = 0 THEN SumTo(MaxItems) ELSE 100)
               /\ evalResult = RootValue("g")
               /\ evalOut = (IF picked.x = 1 THEN <<>> ELSE <<"tail">>) \o <<"next">>
                               \o Repeated("visit", IF picked.y = 0 THEN MaxItems ELSE picked.y - 1) \o <<"after">>)
  /\ [][CarrierHanded => (control' = control /\ kont' = Pop(kont) /\ heap' = heap /\ evalOut' = evalOut)]_vars

\* C11 witness: f returned 10 from a nested block and the caller went on; the
\* fold broke at its second element with 100.
C11_Witness ==
  /\ Done
  /\ Templated({"carriers"})
  /\ picked.x = 1 /\ picked.y = 2
  /\ RootValue("r") = Integer(10)
  /\ RootValue("seen") = Integer(2)
  /\ evalResult = Integer(100)
  /\ evalOut = <<"next", "visit", "after">>

\* A let or an assignment whose value is evaluated fails.
BindFails == Handed({"bind"}) /\ control.val.kind \notin {"Err", "ReturnValue", "BreakValue", "TailCallFunc"} /\ control'.val.kind = "Err"

\* C15: a let of a name already declared in the same scope fails, while the
\* same name declared in a child scope shadows it; an assignment updates the
\* nearest scope on the parent chain that declares the name, and fails when
\* no scope declares it or the cell is not mutable; a failure leaves the
\* bindings of every scope unchanged.
C15_DeclareAndAssign ==
  /\ [](Templated({"scopes"}) /\ Done =>
          /\ RootValue("a") = Integer(1)
          /\ RootValue("s") = Integer(2)
          /\ RootValue("nope") = Undefined
          /\ picked.n \in 1..5 => (evalResult.kind = "Err" /\ RootValue("m") = Integer(11) /\ evalOut = <<>>)
          /\ picked.n = 6 => (evalResult = Integer(7) /\ RootValue("m") = Integer(7) /\ evalOut = <<"after">>)
          /\ picked.n = 7 => (evalResult = Integer(11) /\ RootValue("m") = Integer(11) /\ RootValue("t") = Integer(5) /\ evalOut = <<"after">>))
  /\ [][BindFails => heap' = heap]_vars

\* C15 witness: the assignment to the root's immutable a from a child scope
\* failed; a is still 1 and m still 11.
C15_Witness ==
  /\ Done
  /\ picked = Case("scopes", 5, 0, 0)
  /\ evalResult.kind = "Err"
  /\ RootValue("a") = Integer(1)
  /\ RootValue("m") = Integer(11)
  /\ Len(heap) > 2

\* The names the root scope binds.
RootNames == {heap[Root].variables[i].name : i \in 1..Len(heap[Root].variables)}

\* C16: a free variable of a function body resolves in the scope chain the
\* function was defined in, nearest scope first, and never in the caller's
\* scope; every call runs in a fresh child of the captured scope, so the
\* parameters and lets of one call are visible neither to another call nor
\* to the caller.
C16_LexicalScoping ==
  Templated({"closures"}) =>
    /\ RootNames \cap {"n", "k", "y"} = {}
    /\ Done =>
         /\ RootValue("r1") = Integer(1)
         /\ RootValue("r2") = Integer(11)
         /\ RootValue("r3") = Integer(21)
         /\ RootValue("r4") = Integer(7)
         /\ RootValue("x") = Integer(1)
         /\ picked.n = 1 => evalResult = Err("Identifier not found: k", NoLoc)
         /\ picked.n = 2 => evalResult = Err("Identifier not found: n", NoLoc)
         /\ picked.n = 3 => evalResult = Err("Identifier not found: y", [line |-> 10, column |-> 17])
         /\ picked.n = 4 => evalResult = List(<<Integer(1), Integer(11), Integer(21), Integer(7)>>)

\* C16 witness: peek, called from caller2(5), did not find caller2's y; the
\* two closures of make kept their own k.
C16_Witness ==
  /\ Done
  /\ picked = Case("closures", 3, 0, 0)
  /\ evalResult.kind = "Err" /\ evalResult.line = 10
  /\ RootValue("r2") = Integer(11) /\ RootValue("r3") = Integer(21)
  /\ \E e \in 1..Len(heap) : Declared(heap[e], "y") # {}

\* The output of the sections evaluated so far by a run with parts x and y.
SectionOutput(x, y) == <<"top", "input">> \o (IF x = 1 THEN <<"one">> ELSE <<>>) \o (IF y = 1 THEN <<"two">> ELSE <<>>)

\* run() is over.
RunnerDone == Templated({"solution"}) /\ runner.phase \in {"finished", "failed"}

\* C18: in one run the top-level statements and the input section are
\* evaluated once and before any part, then part_one, then part_two (those
\* declared), each in a child scope of its own in which `input` is bound to
\* the one value the input section gave; the input section's output happens
\* once even with both parts, and a let inside part_one is not visible in
\* part_two.
C18_SolveOrdering ==
  Templated({"solution"}) =>
    /\ \E k \in 0..Len(SectionOutput(picked.x, picked.y)) : evalOut = SubSeq(SectionOutput(picked.x, picked.y), 1, k)
    /\ RootNames \cap {"input", "local"} = {}
    /\ \A i \in 2..Len(runner.scopes) :
         /\ heap[runner.scopes[i]].parent = Root
         /\ GetVariable(heap, runner.scopes[i], "input") = Integer(11)
         /\ \A j \in 2..Len(runner.scopes) : i # j => runner.scopes[i] # runner.scopes[j]
    /\ RunnerDone =>
         /\ evalOut = SectionOutput(picked.x, picked.y)
         /\ runner.input = Integer(11)
         /\ runner.partOne = (IF picked.x = 1 THEN Integer(12) ELSE Undefined)
         /\ (picked.y = 1 /\ picked.n = 0) => (runner.phase = "finished" /\ runner.partTwo = Integer(13))
         /\ (picked.y = 1 /\ picked.n = 1) => (runner.phase = "failed" /\ runner.error = Err("Identifier not found: local", NoLoc))

\* C18 witness: both parts ran after one evaluation of input; part_two did
\* not see part_one's local.
C18_Witness ==
  /\ RunnerDone
  /\ picked = Case("solution", 1, 1, 1)
  /\ evalOut = <<"top", "input", "one", "two">>
  /\ runner.partOne = Integer(12)
  /\ runner.phase = "failed"
  /\ Len(runner.scopes) = 3

\* ---------------------------------------------- properties of the io module

\* C12: an output() call with an empty argument list changes nothing, in any
\* capture state: consoleBuffer (and so its entries), stdout and
\* captureStartTime are what they were before the call.
C12_EmptyOutputIsNoOp ==
  [][(ioLog'.calls # ioLog.calls /\ ioLog'.op = "output" /\ ioLog'.args = <<>>) =>
       (consoleBuffer' = consoleBuffer /\ stdout' = stdout /\ captureStartTime' = captureStartTime)]_vars

\* C12 witness: output([]) was called while capture was enabled and held an
\* entry already.
C12_Witness ==
  /\ ioLog.op = "output" /\ ioLog.args = <<>>
  /\ consoleBuffer.on
  /\ Len(consoleBuffer.entries) = 1
  /\ ioLog.emitted = <<"a">>

Messages(entries) == [i \in 1..Len(entries) |-> entries[i].message]

\* The timestamps never decrease along the list and none is negative.
Monotonic(entries) ==
  \A i \in 1..Len(entries) :
    /\ entries[i].timestamp_ms >= 0
    /\ i > 1 => entries[i - 1].timestamp_ms <= entries[i].timestamp_ms

SpacedMessage == (<<"a">> :> "a") @@ (<<"b", "c">> :> "b c")

\* A client call was made in this step.
IoCalled(op) == ioLog'.calls # ioLog.calls /\ ioLog'.op = op

\* C29: by the history of enable/disable calls (ioLog.capturing), an output()
\* call with arguments makes exactly one event: one more buffer entry with
\* the arguments joined by single spaces and stdout untouched while capture
\* is enabled, one more stdout line with that message and the buffer untouched
\* otherwise. disableConsoleCapture() returns the buffered entries, or an
\* empty list when capture was not enabled, and leaves capture off, so the
\* following outputs go to stdout. enableConsoleCapture() leaves an empty
\* buffer, also when capture was enabled and held entries.
C29_CaptureRouting ==
  [][/\ (IoCalled("output") /\ ioLog'.args # <<>>) =>
          IF ioLog.capturing
          THEN /\ consoleBuffer.on /\ consoleBuffer'.on
               /\ Len(consoleBuffer'.entries) = Len(consoleBuffer.entries) + 1
               /\ SubSeq(consoleBuffer'.entries, 1, Len(consoleBuffer.entries)) = consoleBuffer.entries
               /\ consoleBuffer'.entries[Len(consoleBuffer'.entries)].message = SpacedMessage[ioLog'.args]
               /\ stdout' = stdout
          ELSE /\ ~consoleBuffer.on
               /\ consoleBuffer' = consoleBuffer
               /\ stdout' = Append(stdout, PutsLine(SpacedMessage[ioLog'.args]))
     /\ IoCalled("disableConsoleCapture") =>
          /\ ioLog'.returned = (IF ioLog.capturing THEN consoleBuffer.entries ELSE <<>>)
          /\ ~consoleBuffer'.on
          /\ stdout' = stdout
     /\ IoCalled("enableConsoleCapture") =>
          /\ consoleBuffer'.on
          /\ consoleBuffer'.entries = <<>>
          /\ stdout' = stdout]_vars

\* C29 witness: "a" was captured and returned by disableConsoleCapture(), and
\* the output of "b", "c" after it went to stdout as one line.
C29_Witness ==
  /\ ioLog.op = "output" /\ ioLog.args = <<"b", "c">>
  /\ ~ioLog.capturing /\ ~consoleBuffer.on
  /\ Messages(ioLog.returned) = <<"a">>
  /\ stdout = <<PutsLine("b c")>>

\* What the match program prints for the scrutinee x: the guards tried down
\* to the arm that matches, then that arm's body.
MatchOutput(wild, x) ==
  IF x = 0 THEN <<"b1">>
  ELSE IF x = 1 THEN <<"g2", "b2">>
  ELSE IF x = 2 THEN <<"g2", "g3", "b3">>
  ELSE <<"g2", "g3">> \o (IF wild = 1 THEN <<"b4">> ELSE <<>>)

\* The value of the match program's match.
MatchValue(wild, x) ==
  IF x = 0 THEN Integer(10)
  ELSE IF x = 1 THEN Integer(21)
  ELSE IF x = 2 THEN Integer(30)
  ELSE IF wild = 1 THEN Integer(40)
  ELSE [kind |-> "Err", message |-> "DomainError", line |-> 2, column |-> 7]

\* C20: the arms of a match are tried top to bottom: nothing but the guards
\* down to the first arm that matches and that arm's body is ever evaluated,
\* the match's value is that body's value, and when no arm matches the result
\* is a DomainError at the scrutinee's source location.
C20_MatchFirstArm ==
  Templated({"match"}) =>
    /\ Len(evalOut) <= Len(MatchOutput(picked.n, picked.x))
    /\ \A i \in 1..Len(evalOut) : evalOut[i] = MatchOutput(picked.n, picked.x)[i]
    /\ Done => (evalOut = MatchOutput(picked.n, picked.x) /\ evalResult = MatchValue(picked.n, picked.x))

\* C20 witness: the second arm matched although the third and the wildcard
\* match too.
C20_Witness ==
  /\ Done
  /\ Templated({"match"})
  /\ picked.n = 1 /\ picked.x = 1
  /\ evalOut = <<"g2", "b2">>
  /\ evalResult = Integer(21)

\* No arm matched.
NoArmMatched == Done /\ Templated({"match"}) /\ picked.n = 0 /\ picked.x = 3 /\ evalResult.kind = "Err" /\ evalOut = <<"g2", "g3">>

\* The declared parameter count of the map program's callback.
MapperArity(kind) == IF kind \in {2, 3} THEN 2 ELSE IF kind = 5 THEN 0 ELSE 1

\* What the callback makes of the element v at index i.
MapperValue(kind, v, i) ==
  IF kind \in {1, 4} THEN v + 10
  ELSE IF kind \in {2, 3} THEN v + i
  ELSE 7

\* What the callback prints for the element v at index i.
MapperOutput(kind, v, i) ==
  IF kind = 1 THEN <<ToString(v)>>
  ELSE IF kind = 2 THEN <<Join(<<ToString(v), ToString(i)>>)>>
  ELSE IF kind = 5 THEN <<"z">>
  ELSE <<>>

RECURSIVE MapOutput(_, _, _)
MapOutput(kind, size, i) == IF i > size THEN <<>> ELSE MapperOutput(kind, i + 4, i - 1) \o MapOutput(kind, size, i + 1)

\* C21: map(f, coll) invokes f(value, index) for every element when f is a
\* user function or a built-in with at least two declared parameters, and
\* f(value) otherwise; the elements are visited in order and the result has
\* one element per element of the input.
C21_CallbackArity ==
  Templated({"map"}) =>
    /\ \A j \in 1..Len(kont) : kont[j].kind = "map" =>
          /\ kont[j].items = [i \in 1..picked.x |-> Integer(i + 4)]
          /\ kont[j].args = (IF MapperArity(picked.n) >= 2
                              THEN <<Integer(kont[j].i + 4), Integer(kont[j].i - 1)>>
                              ELSE <<Integer(kont[j].i + 4)>>)
          /\ kont[j].mapped = [i \in 1..(kont[j].i - 1) |-> Integer(MapperValue(picked.n, i + 4, i - 1))]
    /\ Done =>
          /\ evalResult = List([i \in 1..picked.x |-> Integer(MapperValue(picked.n, i + 4, i - 1))])
          /\ evalOut = MapOutput(picked.n, picked.x, 1) \o <<"end">>

\* C21 witness: a callback of two parameters was given the value and the
\* index of each of three elements.
C21_Witness ==
  /\ Done
  /\ Templated({"map"})
  /\ picked.n = 2 /\ picked.x = 3
  /\ evalResult = List(<<Integer(5), Integer(7), Integer(9)>>)
  /\ evalOut = <<"5 0", "6 1", "7 2", "end">>

\* A callback of one parameter was given the value alone.
OneParameterMapped ==
  /\ Templated({"map"}) /\ picked.n = 1
  /\ Len(kont) > 0 /\ Top(kont).kind = "map" /\ Top(kont).i = 2 /\ Top(kont).args = <<Integer(6)>>

\* C23, as stated: isSolutionSource reports hasPartOne (hasPartTwo) exactly
\* when run() returns a result with partOne (partTwo), so the CLI takes the
\* source for a solution exactly when run() returns a solution result.
C23_AsStated ==
  RunDone =>
    LET sol == IsSolutionSource(source)
    IN /\ sol.hasPartOne <=> (result.kind = "solution" /\ result.partOne)
       /\ sol.hasPartTwo <=> (result.kind = "solution" /\ result.partTwo)
       /\ (sol.hasPartOne \/ sol.hasPartTwo) <=> result.kind = "solution"

\* C23 divergence: a source without part sections whose test states a
\* part_one expectation holds the text 'part_one:', so the CLI announces a
\* solution with part_one in its JSONL initial state, while run() returns a
\* script result.
C23_Diverges ==
  /\ RunDone
  /\ outputMode = "jsonl"
  /\ ~source.part_one /\ ~source.part_two
  /\ IsSolutionSource(source).hasPartOne
  /\ result.kind = "script"
  /\ stdout[1] = WriteLine(CreateSolutionInitial(TRUE, FALSE))

\* The lines of stdout that hold an initial state (a document with status
\* 'pending').
InitialLines == {i \in 1..Len(stdout) : stdout[i].kind = "doc" /\ stdout[i].doc.status = "pending"}

\* The source was run or tested in JSONL mode and the process exited.
JsonlDone == pc = "exit" /\ ran /\ outputMode = "jsonl"

\* C24, as stated: in JSONL mode the initial state is written exactly once,
\* as the first line, and every other line is a patch line, also when the
\* error handler ran, in run mode as in test mode.
C24_AsStated ==
  JsonlDone =>
    /\ InitialLines = {1}
    /\ \A i \in 2..Len(stdout) : stdout[i].kind = "patches"

\* C24 divergence: a script that fails at run time in run mode: the initial
\* state is written before run() and again by the error handler.
C24_InitialTwice ==
  /\ JsonlDone
  /\ ~isTestRun
  /\ thrown # NoError
  /\ source.fault = "runtime" /\ ~source.part_one /\ ~source.part_two /\ source.tests = <<>>
  /\ stdout = <<WriteLine(CreateScriptInitial), WritePatches(<<ReplacePatch("/status", Str("running"))>>),
                WriteLine(CreateScriptInitial), WritePatches(<<ReplacePatch("/status", Str("running"))>>),
                LastLine>>
  /\ LastLine.kind = "patches" /\ LastLine.patches[1] = ReplacePatch("/status", Str("error"))

\* In test mode the error handler writes the only initial state.
TestErrorInitialOnce == (JsonlDone /\ isTestRun /\ thrown # NoError) => (InitialLines = {1} /\ Len(stdout) = 3)

\* ------------------------------------- the JSONL stream as its reader sees it

\* null
Null == Str("null")

\* A part of a solution document, by its JSON pointers.
FlatPart(name, status) ==
  IF status = "absent" THEN <<>>
  ELSE ("/" \o name \o "/status" :> Str(status)) @@ ("/" \o name \o "/value" :> Null) @@ ("/" \o name \o "/duration_ms" :> Null)

RECURSIVE FlatTests(_, _)
\* The tests of a test document from the k-th on, by their JSON pointers
\* (the pointer's index is 0-based).
FlatTests(tests, k) ==
  IF k > Len(tests) THEN <<>>
  ELSE (TestPath(k - 1, "index") :> Num(tests[k].index)) @@ (TestPath(k - 1, "slow") :> Str(BoolStr(tests[k].slow)))
       @@ (TestPath(k - 1, "status") :> Str(tests[k].status))
       @@ (TestPath(k - 1, "part_one") :> Str(tests[k].part_one)) @@ (TestPath(k - 1, "part_two") :> Str(tests[k].part_two))
       @@ FlatTests(tests, k + 1)

\* A document as the function from its JSON pointers to its values (of the
\* console only the number of entries).
Flat(doc) ==
  ("/type" :> Str(doc.type)) @@ ("/status" :> Str(doc.status)) @@ ("/console" :> Num(Len(doc.console)))
  @@ (IF doc.type = "test"
      THEN ("/success" :> Str(doc.success))
           @@ ("/summary/total" :> Num(doc.summary.total)) @@ ("/summary/passed" :> Num(doc.summary.passed))
           @@ ("/summary/failed" :> Num(doc.summary.failed)) @@ ("/summary/skipped" :> Num(doc.summary.skipped))
           @@ FlatTests(doc.tests, 1)
      ELSE IF doc.type = "script" THEN ("/value" :> Str(doc.value)) @@ ("/duration_ms" :> Null)
      ELSE FlatPart("part_one", doc.part_one) @@ FlatPart("part_two", doc.part_two))

\* A JSON patch applied: replace sets the value at an existing pointer, add
\* to '/console/-' appends an entry; a replace of a missing pointer is
\* invalid.
ApplyPatch(flat, patch) ==
  IF patch.op = "add" /\ patch.path = "/console/-" THEN [flat EXCEPT !["/console"] = Num(@.n + 1)]
  ELSE IF patch.op = "add" THEN (patch.path :> patch.val) @@ flat
  ELSE IF patch.path \in DOMAIN flat THEN [flat EXCEPT ![patch.path] = patch.val]
  ELSE ("/invalid" :> Str(patch.path)) @@ flat

RECURSIVE ApplyPatches(_, _)
ApplyPatches(flat, patches) ==
  IF Len(patches) = 0 THEN flat ELSE ApplyPatches(ApplyPatch(flat, patches[1]), Tail(patches))

RECURSIVE PatchesFrom(_, _)
\* The patches of the lines from the i-th on, in order.
PatchesFrom(lines, i) ==
  IF i > Len(lines) THEN <<>>
  ELSE (IF lines[i].kind = "patches" THEN lines[i].patches ELSE <<>>) \o PatchesFrom(lines, i + 1)

\* The document a reader holds after the first n lines: the initial state
\* with every patch applied.
StreamedUpTo(n) == ApplyPatches(Flat(stdout[1].doc), PatchesFrom(SubSeq(stdout, 1, n), 2))

Streamed == StreamedUpTo(Len(stdout))

\* Run mode in JSONL ran to the end and exited 0.
JsonlRunDone == RunDone /\ outputMode = "jsonl" /\ exitCode = 0

\* A part of the streamed document is complete, with a value and a duration.
PartComplete(flat, name) ==
  /\ flat["/" \o name \o "/status"] = Str("complete")
  /\ flat["/" \o name \o "/value"] # Null
  /\ flat["/" \o name \o "/duration_ms"] # Null

\* C25, as stated: a JSONL run that exits 0 ends with a patch setting
\* '/status' to 'complete', and in the streamed document nothing is left
\* 'pending' or 'running': a script has a value and a duration, and every
\* part announced in the initial state is complete with a value and a
\* duration.
C25_AsStated ==
  JsonlRunDone =>
    /\ LastLine.kind = "patches"
    /\ \E i \in 1..Len(LastLine.patches) : LastLine.patches[i] = ReplacePatch("/status", Str("complete"))
    /\ \A q \in DOMAIN Streamed : Streamed[q] \notin {Str("pending"), Str("running")}
    /\ stdout[1].doc.type = "script" => (Streamed["/value"] # Null /\ Streamed["/duration_ms"] # Null)
    /\ stdout[1].doc.part_one # "absent" => PartComplete(Streamed, "part_one")
    /\ stdout[1].doc.part_two # "absent" => PartComplete(Streamed, "part_two")

\* C25 divergence: a source with a part_one section and a test that states a
\* part_two expectation: part_two is announced and set running, run()
\* returns no partTwo, and the stream ends 'complete' with part_two running.
C25_PartLeftRunning ==
  /\ JsonlRunDone
  /\ source.part_one /\ ~source.part_two
  /\ stdout[1].doc.part_two = "pending"
  /\ Streamed["/status"] = Str("complete")
  /\ PartComplete(Streamed, "part_one")
  /\ Streamed["/part_two/status"] = Str("running")
  /\ Streamed["/part_two/value"] = Null

\* When the text part_one: / part_two: occurs in section headers only, the
\* stream of a run that exits 0 leaves nothing pending or running.
HeadersOnlyComplete ==
  (JsonlRunDone /\ IsSolutionSource(source) = [hasPartOne |-> source.part_one, hasPartTwo |-> source.part_two]) =>
    /\ \A q \in DOMAIN Streamed : Streamed[q] \notin {Str("pending"), Str("running")}
    /\ stdout[1].doc.type = "script" => (Streamed["/value"] # Null /\ Streamed["/duration_ms"] # Null)
    /\ stdout[1].doc.part_one # "absent" => PartComplete(Streamed, "part_one")
    /\ stdout[1].doc.part_two # "absent" => PartComplete(Streamed, "part_two")

\* Test mode in JSONL ran to the end.
JsonlTestsDone == TestsDone /\ outputMode = "jsonl"

\* The pointers formatTestJson and the stream are compared on.
ComparedPointers(n) ==
  {"/status", "/success", "/summary/total", "/summary/passed", "/summary/failed", "/summary/skipped"}
  \cup {TestPath(i, field) : i \in 0..(n - 1), field \in {"index", "slow", "status"}}

\* C26: the document obtained by applying the patches of the JSONL test
\* stream to createTestInitial(testCases) agrees with formatTestJson on the
\* same test cases: status 'complete', the success flag, the summary's
\* total, passed, failed and skipped, and each test's index, slow flag and
\* status.
C26_StreamAgreesWithJson ==
  JsonlTestsDone =>
    LET sol == IsSolutionSource(source)
        json == Flat(FormatTestJson(testCases, sol.hasPartOne, sol.hasPartTwo, <<>>))
    IN /\ stdout[1] = WriteLine(CreateTestInitial(testCases))
       /\ "/invalid" \notin DOMAIN Streamed
       /\ Streamed["/status"] = Str("complete")
       /\ \A q \in ComparedPointers(Len(testCases)) : q \in DOMAIN Streamed /\ q \in DOMAIN json /\ Streamed[q] = json[q]
       /\ Streamed["/summary/total"] = Num(Len(testCases))

\* C26 witness: two tests, the first skipped and the second failed.
C26_Witness ==
  /\ JsonlTestsDone
  /\ Len(testCases) = 2
  /\ testCases[1].skipped /\ ~testCases[2].skipped /\ testCases[2].partOne = "fail"
  /\ Streamed["/summary/skipped"] = Num(1) /\ Streamed["/summary/failed"] = Num(1) /\ Streamed["/summary/passed"] = Num(0)
  /\ Streamed["/success"] = Str("false")
  /\ Streamed[TestPath(0, "status")] = Str("skipped") /\ Streamed[TestPath(1, "status")] = Str("complete")

\* Every patch of the stream, in the order written.
AllPatches == PatchesFrom(stdout, 2)

\* The document after the first j patches.
DocAfter(j) == ApplyPatches(Flat(stdout[1].doc), SubSeq(AllPatches, 1, j))

\* The tests a patch is about (by the 0-based index of its pointer).
TestsOf(patch) == {i \in 0..(Len(testCases) - 1) : \E field \in {"status", "part_one", "part_two"} : patch.path = TestPath(i, field)}

\* The moves a test's status may make.
StatusMoves == {<<"pending", "running">>, <<"running", "complete">>, <<"pending", "skipped">>}

\* The sum of the summary's counters.
Counted(flat) == flat["/summary/passed"].n + flat["/summary/failed"].n + flat["/summary/skipped"].n

\* C27: in the JSONL test stream the tests are reported in index order; a
\* test's status moves only pending -> running -> complete or pending ->
\* skipped; the counters passed, failed and skipped never decrease and sum
\* to at most total after every patch, and to total once '/status'
\* 'complete' is written.
C27_StreamOrder ==
  JsonlTestsDone =>
    /\ stdout[1].kind = "doc"
    /\ stdout[1].doc.summary = [total |-> Len(testCases), passed |-> 0, failed |-> 0, skipped |-> 0]
    /\ Len(stdout[1].doc.tests) = Len(testCases)
    /\ \A i \in 1..Len(testCases) : stdout[1].doc.tests[i].index = i /\ stdout[1].doc.tests[i].status = "pending"
    /\ \A j \in 1..Len(AllPatches), k \in 1..Len(AllPatches) :
         j < k => \A a \in TestsOf(AllPatches[j]), b \in TestsOf(AllPatches[k]) : a <= b
    /\ \A j \in 1..Len(AllPatches) :
         LET before == DocAfter(j - 1)
             after == DocAfter(j)
         IN /\ DOMAIN after = DOMAIN before
            /\ \A i \in 0..(Len(testCases) - 1) :
                 \/ after[TestPath(i, "status")] = before[TestPath(i, "status")]
                 \/ <<before[TestPath(i, "status")].s, after[TestPath(i, "status")].s>> \in StatusMoves
            /\ \A q \in {"/summary/passed", "/summary/failed", "/summary/skipped"} : after[q].n >= before[q].n
            /\ after["/summary/total"] = before["/summary/total"]
            /\ Counted(after) <= after["/summary/total"].n
            /\ AllPatches[j] = ReplacePatch("/status", Str("complete")) => Counted(before) = before["/summary/total"].n
    /\ \A i \in 0..(Len(testCases) - 1) : Streamed[TestPath(i, "status")].s \in {"complete", "skipped"}
    /\ \E j \in 1..Len(AllPatches) : AllPatches[j] = ReplacePatch("/status", Str("complete"))

\* C27 witness: two tests ran, the first passed and the second failed; after
\* the first test's patches one of two tests is counted.
C27_Witness ==
  /\ JsonlTestsDone
  /\ Len(testCases) = 2
  /\ ~testCases[1].skipped /\ ~testCases[2].skipped
  /\ Streamed["/summary/passed"] = Num(1) /\ Streamed["/summary/failed"] = Num(1)
  /\ \E j \in 1..Len(AllPatches) :
       /\ Counted(DocAfter(j)) = 1
       /\ DocAfter(j)[TestPath(0, "status")] = Str("complete")
       /\ DocAfter(j)[TestPath(1, "status")] = Str("running")

\* The tests that ran and have a part that did not pass.
FailedTests(tcs) == {i \in 1..Len(tcs) : ~tcs[i].skipped /\ (tcs[i].partOne = "fail" \/ tcs[i].partTwo = "fail")}

SkippedTests(tcs) == {i \in 1..Len(tcs) : tcs[i].skipped}

\* C28: formatTestJson's document: summary.total is the number of test cases
\* and the sum of passed, failed and skipped; success iff failed = 0;
\* tests[i].index is the 1-based position; a test's status is 'skipped' iff
\* the case was skipped; a case that ran counts as failed iff one of its
\* present parts did not pass, so a case without parts counts as passed.
C28_TestJsonInvariant ==
  (TestsDone /\ outputMode = "json") =>
    LET doc == LastLine.doc
        n == Len(testCases)
    IN /\ LastLine.kind = "doc" /\ doc.type = "test"
       /\ doc.summary.total = n
       /\ doc.summary.total = doc.summary.passed + doc.summary.failed + doc.summary.skipped
       /\ doc.success = BoolStr(doc.summary.failed = 0)
       /\ Len(doc.tests) = n
       /\ \A i \in 1..n : doc.tests[i].index = i /\ (doc.tests[i].status = "skipped" <=> testCases[i].skipped)
       /\ doc.summary.failed = Cardinality(FailedTests(testCases))
       /\ doc.summary.skipped = Cardinality(SkippedTests(testCases))
       /\ doc.summary.passed = n - Cardinality(FailedTests(testCases) \cup SkippedTests(testCases))

\* C28 witness: a test without parts counts as passed, and a test whose
\* part two alone failed as failed.
C28_Witness ==
  /\ TestsDone /\ outputMode = "json"
  /\ Len(testCases) = 2
  /\ ~testCases[1].skipped /\ testCases[1].partOne = "absent" /\ testCases[1].partTwo = "absent"
  /\ ~testCases[2].skipped /\ testCases[2].partOne = "pass" /\ testCases[2].partTwo = "fail"
  /\ LastLine.doc.summary = [total |-> 2, passed |-> 1, failed |-> 1, skipped |-> 0]
  /\ LastLine.doc.success = "false"

\* ---------------------------------------------- properties of collections

\* C19: a persistent collection never changes: c1 holds what it held before
\* `c2 = push(c1, ..)`, whatever is done later to c2, to mutable copies of
\* it and with push!, and so does every collection from the moment it is
\* persistent; push! is rejected on a persistent receiver and push on a
\* transient one (and each is accepted on the other).
C19_Persistence ==
  /\ coll.kind # "none" => ItemsOf(coll, 1) = coll.before
  /\ \A r \in 1..Len(coll.lists) : coll.lists[r].owner = 0 => ItemsOf(coll, r) = coll.snap[r]
  /\ coll.last.op = "push" => (coll.last.outcome = "error" <=> coll.last.transient)
  /\ coll.last.op = "push!" => (coll.last.outcome = "error" <=> ~coll.last.transient)

\* C19 witness: c2 = push(c1, ..) was made, a mutable copy of c2 was changed
\* with push!, and c1 and c2 hold what they held.
C19_Witness ==
  /\ coll.kind = "List"
  /\ Len(coll.lists) = 3
  /\ coll.lists[2].owner = 0 /\ coll.lists[3].owner # 0
  /\ coll.last.op = "push!" /\ coll.last.outcome = "ok" /\ coll.last.receiver = 3
  /\ ItemsOf(coll, 1) = coll.before
  /\ Len(ItemsOf(coll, 2)) = Len(coll.before) + 1
  /\ Len(ItemsOf(coll, 3)) = Len(coll.before) + 2

\* ------------------------------------------------- properties of input()

\* The cache file of aoc://YEAR/DAY: aocYEAR_dayDD.input
CacheNameOf(path) ==
  LET day == Tail(path.pathname)
  IN <<"aoc", path.host, "_day">> \o (IF Len(day) = 1 THEN <<"0">> \o day ELSE day) \o <<".input">>

\* The content of a file, when there is one.
Cached(files, name) == {f.content : f \in {g \in files : g.name = name}}

\* The text without the whitespace at its end.
EndTrimmed(text) ==
  LET last == {i \in 1..Len(text) : text[i] \notin Whitespace}
  IN SubSeq(text, 1, IF last = {} THEN 0 ELSE CHOOSE i \in last : \A j \in last : j <= i)

\* An input() call for an aoc:// path is made in this step.
AocCalled == inputLog'.calls = inputLog.calls + 1 /\ inputLog'.path.scheme = "aoc"

\* C22: input('aoc://YEAR/DAY') returns the content of the cache file
\* aocYEAR_dayDD.input when it is readable, with no fetch and whatever the
\* token; on a miss with a token and a successful fetch it writes the
\* end-trimmed content to that file and returns it; a second call for the
\* path of a call that returned gives the same string and fetches nothing.
C22_AocCaching ==
  [][AocCalled =>
       LET name == CacheNameOf(inputLog'.path)
           call == inputLog'
       IN /\ Cached(disk.files, name) # {} =>
               /\ call.outcome = "returned" /\ {call.value} = Cached(disk.files, name)
               /\ call.fetches = <<>>
               /\ disk' = disk
          /\ (Cached(disk.files, name) = {} /\ disk.token.set /\ disk.token.value # "" /\ call.net.exitCode = 0) =>
               /\ call.outcome = "returned" /\ call.value = EndTrimmed(call.net.stdout)
               /\ Len(call.fetches) = 1
               /\ Cached(disk'.files, name) = {call.value}
               /\ \A f \in disk'.files : f.name # name => f \in disk.files
          /\ (inputLog.outcome = "returned" /\ inputLog.path = call.path) =>
               /\ call.outcome = "returned" /\ call.value = inputLog.value
               /\ call.fetches = <<>>]_vars

\* C22 witness: the first call for aoc://2022/1 fetched "b\n" and wrote "b"
\* to aoc2022_day01.input; the second call returned "b" without a fetch.
C22_Witness ==
  /\ inputLog.calls = 2
  /\ inputLog.path = AocPath("2022", <<"1">>)
  /\ inputLog.outcome = "returned" /\ inputLog.value = <<"b">>
  /\ inputLog.fetches = <<>>
  /\ inputLog.net.exitCode = 22
  /\ disk.files = {[name |-> <<"aoc", "2022", "_day", "0", "1", ".input">>, content |-> <<"b">>]}

\* An input() call is made in this step.
InputCalled == inputLog'.calls = inputLog.calls + 1

LocalUnreadable == inputLog.path = LocalPath("none.txt") /\ inputLog.outcome = "thrown" /\ inputLog.message = "Unable to read path"

====
